---- MODULE Spec2Model ----
(***************************************************************************)
(* A state-machine model of the gsac integration: the per-device           *)
(* DeviceAvailabilityManager, the GSACBaseEntity availability protocol     *)
(* (subscribe / unsubscribe / reset on connectivity transitions) and the   *)
(* wire <-> domain translation of the entity variants.                     *)
(*                                                                         *)
(* Scheduling follows asyncio: a unit of work runs without interruption up *)
(* to its next await of transport I/O (mqtt.async_subscribe,               *)
(* mqtt.async_publish).  Tasks made by hass.async_create_task enter a FIFO *)
(* ready queue; a task suspended in I/O resumes when the transport answers.*)
(***************************************************************************)
EXTENDS Integers, Sequences, FiniteSets, TLC

\* Number of connectivity messages one behaviour delivers.
MaxMsgs == 2

\* Number of transport faults (a subscribe that raises) one behaviour suffers.
MaxFaults == 1

CONNECTED_ONLINE == "1"
CONNECTED_OFFLINE == "0"

\* Payloads seen on {id}/connected/out: the two sentinels and one other value.
ConnPayloads == {"0", "1", "2"}

\* One entity per platform class; the entity is named after its class.
Kinds == {"climate", "mode_select", "fan_select", "number",
          "sensor_current", "sensor_target", "switch"}

Topics == {"mode_out", "temp_out", "temp_comfort_out", "fan_speed_out", "backlight_out"}

\* The inbound topics an entity subscribes to, in the order of its subscribe loop.
SubTopics(e) ==
    CASE e = "climate" -> <<"mode_out", "temp_out", "temp_comfort_out",
                            "fan_speed_out", "backlight_out">>
      [] e = "mode_select" -> <<"mode_out">>
      [] e = "fan_select" -> <<"fan_speed_out">>
      [] e = "number" -> <<"temp_comfort_out">>
      [] e = "sensor_current" -> <<"temp_out">>
      [] e = "sensor_target" -> <<"temp_comfort_out">>
      [] e = "switch" -> <<"backlight_out">>

\* The configuration explored for the availability protocol: two entities sharing
\* one manager.
Rosters == {{"mode_select", "switch"}}

Range(s) == {s[i] : i \in DOMAIN s}

None == <<>>
Some(x) == <<x>>

(***************************************************************************)
(* const.py: wire codes and their domain values.  Option labels are        *)
(* written in Latin transliteration.                                       *)
(***************************************************************************)
TEMP_MIN == 16
TEMP_MAX == 30
TEMP_DEFAULT == 22

MODE_MAPPING ==
    [c \in {"0", "1", "2", "3", "4", "5"} |->
       CASE c = "0" -> <<"off", "Vyklyucheno">>
         [] c = "1" -> <<"auto", "Avto">>
         [] c = "2" -> <<"cool", "Kholod">>
         [] c = "3" -> <<"dry", "Osushenie">>
         [] c = "4" -> <<"heat", "Teplo">>
         [] c = "5" -> <<"fan_only", "Ventilyatsiya">>]

FAN_SPEEDS ==
    [c \in {"0", "1", "2", "3"} |->
       CASE c = "0" -> <<"auto", "Avto">>
         [] c = "1" -> <<"low", "Nizkaya">>
         [] c = "2" -> <<"medium", "Srednyaya">>
         [] c = "3" -> <<"high", "Vysokaya">>]

SWING_MODES ==
    [c \in {"0", "1"} |-> IF c = "1" THEN <<"on", "Vklyucheny">> ELSE <<"off", "Vyklyucheny">>]

BLINDS_ON == "1"
BLINDS_OFF == "0"

\* {mqtt_val: ha_mode for mqtt_val, (ha_mode, _, _) in table.items()}
MqttToHa(table) == [c \in DOMAIN table |-> table[c][1]]
\* {mqtt_val: human_name for mqtt_val, (_, human_name, _) in table.items()}
SelectOptions(table) == [c \in DOMAIN table |-> table[c][2]]
HaToMqttByLabel(table) ==
    [m \in {table[c][2] : c \in DOMAIN table} |-> CHOOSE c \in DOMAIN table : table[c][2] = m]

\* {ha_mode: mqtt_val for mqtt_val, (ha_mode, _, _) in table.items()}
HaToMqtt(table) ==
    [m \in {table[c][1] : c \in DOMAIN table} |-> CHOOSE c \in DOMAIN table : table[c][1] = m]

\* climate.py keeps its own table from wire code to HVACMode.
MQTT_TO_HVAC_MODE ==
    [c \in {"0", "1", "2", "3", "4", "5"} |->
       CASE c = "0" -> "off"
         [] c = "1" -> "auto"
         [] c = "2" -> "cool"
         [] c = "3" -> "dry"
         [] c = "4" -> "heat"
         [] c = "5" -> "fan_only"]
HA_TO_MQTT_MODES == HaToMqtt(MODE_MAPPING)
MQTT_TO_HA_MODES == MqttToHa(MODE_MAPPING)
MQTT_TO_HA_FAN == MqttToHa(FAN_SPEEDS)
HA_TO_MQTT_FAN == HaToMqtt(FAN_SPEEDS)
MQTT_TO_HA_SWING == MqttToHa(SWING_MODES)
HA_TO_MQTT_SWING == HaToMqtt(SWING_MODES)
MODE_SELECT_OPTIONS == SelectOptions(MODE_MAPPING)
FAN_SELECT_OPTIONS == SelectOptions(FAN_SPEEDS)

\* Temperatures are held in half degrees, so that 22.5 is the integer 45.
Deg(n) == 2 * n

\* float(payload) on the payloads and requested values explored; "abc" raises ValueError.
TempTexts == {"10", "22", "22.5", "23.5", "35", "abc"}
ParseFloat(p) ==
    CASE p = "10" -> Some(Deg(10))
      [] p = "22" -> Some(Deg(22))
      [] p = "22.5" -> Some(Deg(22) + 1)
      [] p = "23.5" -> Some(Deg(23) + 1)
      [] p = "35" -> Some(Deg(35))
      [] OTHER -> None

\* int(round(x)): Python rounds a half to the even neighbour.
RoundHalfEven(h) ==
    IF h % 2 = 0 THEN h \div 2
    ELSE LET lo == (h - 1) \div 2 IN IF lo % 2 = 0 THEN lo ELSE lo + 1

\* str(n) for the whole degrees a command can publish.
DegreeText == <<"16", "17", "18", "19", "20", "21", "22", "23", "24", "25", "26", "27",
                "28", "29", "30">>
Str(n) == DegreeText[n - TEMP_MIN + 1]

VARIABLES
    roster,        \* the entities this configuration entry sets up
    phase,         \* the config entry: "platforms", "subscribing", "running", "unloaded"
    mgrAvailable,  \* DeviceAvailabilityManager._available
    mgrEntities,   \* DeviceAvailabilityManager._entities (a list)
    mgrAwaiting,   \* ids of tasks the connectivity callback still waits for
    ent,           \* per entity: life, _available, _entity_ready, _mqtt_subscriptions, display
    active,        \* transport: active subscriptions per entity and topic
    runq,          \* event loop: tasks created and not yet started (FIFO)
    susp,          \* event loop: tasks suspended in transport I/O
    nfaults,       \* transport faults so far
    nmsgs,         \* connectivity messages processed so far
    lastPayload,   \* payload of the latest connectivity message processed
    done,          \* the latest finished on_availability_changed call
    feature,       \* the entity and feature whose traffic this behaviour carries
    calls,         \* commands and corrections suspended in mqtt.async_publish
    published,     \* transport: the messages published so far, oldest first
    nev,           \* inbound messages delivered and commands called so far
    lastEv,        \* the latest inbound message or command
    lastFailure,   \* the latest publish that raised, and how its call ended
    conv,          \* a table lookup in progress: its input and its result so far
    probe          \* config flow: the topic-existence probe of the setup step

trafficVars == <<feature, calls, published, nev, lastEv, lastFailure, conv, probe>>

vars == <<roster, phase, mgrAvailable, mgrEntities, mgrAwaiting, ent, active,
          runq, susp, nfaults, nmsgs, lastPayload, done, trafficVars>>

(***************************************************************************)
(* Displayed state of each entity class: the class attributes and the      *)
(* values __init__ assigns.                                                *)
(***************************************************************************)
InitDisplay(e) ==
    CASE e = "climate" ->
            [hvac_mode |-> "off", fan_mode |-> "auto", swing_mode |-> "off",
             current_temperature |-> None, target_temperature |-> Some(Deg(TEMP_MIN)),
             hvac_action |-> "off", need_fan_auto_correction |-> FALSE]
      [] e = "mode_select" ->
            [current_mode_mqtt |-> "0", current_option |-> MODE_SELECT_OPTIONS["0"]]
      [] e = "fan_select" ->
            [current_fan_speed_mqtt |-> "0", current_option |-> FAN_SELECT_OPTIONS["0"]]
      [] e = "switch" -> [state |-> FALSE]
      [] e = "number" -> [native_value |-> Some(Deg(TEMP_DEFAULT))]
      [] OTHER -> [native_value |-> None]

ResetDisplayKeepingTemperature(e, d) ==
    CASE e = "climate" ->
            [d EXCEPT !.hvac_action = "off", !.need_fan_auto_correction = FALSE]
      [] e = "mode_select" ->
            [d EXCEPT !.current_mode_mqtt = "0", !.current_option = MODE_SELECT_OPTIONS["0"]]
      [] e = "fan_select" ->
            [d EXCEPT !.current_fan_speed_mqtt = "0",
                      !.current_option = FAN_SELECT_OPTIONS["0"]]
      [] e = "switch" -> [d EXCEPT !.state = FALSE]
      [] e = "number" -> [d EXCEPT !.native_value = Some(Deg(TEMP_DEFAULT))]
      [] OTHER -> [d EXCEPT !.native_value = None]

\* _reset_state of each class.
ResetDisplay(e, d) ==
    CASE e = "climate" ->
            [d EXCEPT !.current_temperature = None, !.hvac_action = "off",
                      !.need_fan_auto_correction = FALSE]
      [] e = "mode_select" ->
            [d EXCEPT !.current_mode_mqtt = "0", !.current_option = MODE_SELECT_OPTIONS["0"]]
      [] e = "fan_select" ->
            [d EXCEPT !.current_fan_speed_mqtt = "0",
                      !.current_option = FAN_SELECT_OPTIONS["0"]]
      [] e = "switch" -> [d EXCEPT !.state = FALSE]
      [] e = "number" -> [d EXCEPT !.native_value = Some(Deg(TEMP_DEFAULT))]
      [] OTHER -> [d EXCEPT !.native_value = None]

\* GSACBaseEntity.__init__ before registration.  offlines counts the times the
\* availability flag has been set to false.
NewEntity(e) ==
    [life |-> "constructed", available |-> FALSE, ready |-> FALSE,
     subs |-> <<>>, d |-> InitDisplay(e), offlines |-> 0]

NoEntity(e) ==
    [life |-> "none", available |-> FALSE, ready |-> FALSE,
     subs |-> <<>>, d |-> InitDisplay(e), offlines |-> 0]

NoCall == [e |-> "none", v |-> FALSE, outcome |-> "none", log |-> <<>>]

\* An inbound message or a command: what it was, the entity's availability flag and
\* display, the number of calls in flight and of messages already published when it
\* arrived, and the state writes it made.
Event(kind, name, arg, s, inflight, pubs, wrote) ==
    [kind |-> kind, name |-> name, arg |-> arg,
     before |-> [available |-> s.available, d |-> s.d, offlines |-> s.offlines],
     inflight |-> inflight, pubs |-> pubs, wrote |-> wrote]

NoEvent(s) == Event("none", "", "", s, 0, 0, 0)

\* _check_mqtt_topic_exists is not running.
NoProbe ==
    [pc |-> "idle", connected |-> FALSE, again |-> "ignored", topic_found |-> FALSE,
     lwt_found |-> FALSE, subs |-> {}, result |-> "none", nmsg |-> 0, seen |-> {}]

NoConv == [table |-> "none", first |-> "none", input |-> "", steps |-> 0, value |-> None]

NoFailure == [kind |-> "none", e |-> "none", outcome |-> "none"]

\* No device traffic and no command: the availability protocol on its own.
NoTraffic ==
    /\ feature = [e |-> "none", topics |-> {}, ops |-> {}]
    /\ calls = <<>>
    /\ published = <<>>
    /\ nev = 0
    /\ lastEv = NoEvent(NoEntity("none"))
    /\ lastFailure = NoFailure
    /\ conv = NoConv
    /\ probe = NoProbe

Init ==
    /\ roster \in Rosters
    /\ phase = "platforms"
    /\ mgrAvailable = FALSE
    /\ mgrEntities = <<>>
    /\ mgrAwaiting = {}
    /\ ent = [e \in Kinds |-> NoEntity(e)]
    /\ active = [e \in Kinds |-> [t \in Topics |-> 0]]
    /\ runq = <<>>
    /\ susp = {}
    /\ nfaults = 0
    /\ nmsgs = 0
    /\ lastPayload = "none"
    /\ done = NoCall
    /\ NoTraffic

(***************************************************************************)
(* Steps of GSACBaseEntity, as functions of a context c:                   *)
(*   c.s   the entity's fields, c.act its subscriptions on the transport,  *)
(*   c.log the steps the running call has performed so far.                *)
(***************************************************************************)
Ctx(e) == [s |-> ent[e], act |-> active[e], log |-> <<>>]

\* self._available = available
SetAvailable(c, v) ==
    [c EXCEPT !.s.available = v, !.s.offlines = IF v THEN @ ELSE @ + 1,
              !.log = Append(@, "set_available")]

\* mqtt.async_subscribe(hass, topic, callback): the subscription is on the transport
\* from the call on; its unsubscribe handle is returned when the await completes.
SubscribeCall(c, tp) == [c EXCEPT !.act[tp] = @ + 1, !.log = Append(@, "subscribe")]

\* _add_mqtt_subscription(unsubscribe)
AddMqttSubscription(c, tp) == [c EXCEPT !.s.subs = Append(@, tp), !.log = Append(@, "record")]

\* Calling one unsubscribe handle removes that subscription from the transport.
RECURSIVE CancelAll(_, _)
CancelAll(act, handles) ==
    IF handles = <<>> THEN act
    ELSE CancelAll([act EXCEPT ![Head(handles)] = IF @ > 0 THEN @ - 1 ELSE 0],
                   Tail(handles))

UnsubscribeMqttKeepingRecord(c) ==
    [c EXCEPT !.act = CancelAll(@, c.s.subs), !.log = Append(@, "unsubscribe")]

\* _unsubscribe_mqtt: call every recorded handle, then clear the list.
UnsubscribeMqtt(c) ==
    [c EXCEPT !.act = CancelAll(@, c.s.subs), !.s.subs = <<>>,
              !.log = Append(@, "unsubscribe")]

\* _reset_state of the entity's class
ResetState(e, c) == [c EXCEPT !.s.d = ResetDisplay(e, @), !.log = Append(@, "reset")]

SafeWriteUnguarded(c) == [c EXCEPT !.log = Append(@, "write")]

\* safe_async_write_ha_state: written only when the entity is ready
SafeWrite(c) ==
    [c EXCEPT !.log = Append(@, IF c.s.ready THEN "write" ELSE "write_dropped")]

BecomeUnavailableResetFirst(e, c) ==
    SafeWrite(UnsubscribeMqtt(ResetState(e, SetAvailable(c, FALSE))))

\* on_availability_changed(False) after the early return: no await suspends here.
BecomeUnavailable(e, c) ==
    SafeWrite(ResetState(e, UnsubscribeMqtt(SetAvailable(c, FALSE))))

\* on_availability_changed(True) up to its first suspension, inside
\* _setup_mqtt_subscriptions at the first mqtt.async_subscribe.
BecomeAvailable(e, c) == SubscribeCall(SetAvailable(c, TRUE), SubTopics(e)[1])

\* _setup_mqtt_subscriptions resumed after the pc-th subscribe returned its handle:
\* record it and call the next subscribe, if any.
SubscribeLoopStep(e, c, pc) ==
    LET c1 == AddMqttSubscription(c, SubTopics(e)[pc])
    IN  IF pc < Len(SubTopics(e)) THEN SubscribeCall(c1, SubTopics(e)[pc + 1]) ELSE c1

\* The tail of on_availability_changed once the branch has completed.
FinishAvailabilityChange(c) == SafeWrite(c)

(***************************************************************************)
(* Callbacks of the inbound topics.  Each takes the entity's fields s and  *)
(* the payload and yields the new display d, whether the state was written *)
(* and whether a fan-speed correction task was created.                    *)
(***************************************************************************)
Handled(d, wrote, spawn) == [d |-> d, wrote |-> wrote, spawn |-> spawn]
Ignored(s) == Handled(s.d, FALSE, FALSE)

HvacActionWithoutFan(payload) ==
    CASE payload = "0" -> "off"
      [] payload = "2" -> "cooling"
      [] payload = "4" -> "heating"
      [] OTHER -> "idle"

\* The if/elif chain of mode_received that sets _current_hvac_action.
HvacActionOf(payload) ==
    CASE payload = "0" -> "off"
      [] payload = "2" -> "cooling"
      [] payload = "4" -> "heating"
      [] payload = "5" -> "fan"
      [] OTHER -> "idle"

ModeReceivedWithoutTask(s, payload) ==
    IF ~s.available \/ payload \notin DOMAIN MQTT_TO_HVAC_MODE THEN Ignored(s)
    ELSE LET new_hvac_mode == MQTT_TO_HVAC_MODE[payload]
             need == IF new_hvac_mode = "fan_only" /\ s.d.hvac_mode # "fan_only"
                        /\ s.d.fan_mode = "auto"
                     THEN TRUE ELSE s.d.need_fan_auto_correction
         IN  Handled([s.d EXCEPT !.hvac_mode = new_hvac_mode,
                                 !.need_fan_auto_correction = need,
                                 !.hvac_action = HvacActionOf(payload)], TRUE, FALSE)

\* climate: mode_received
ModeReceived(s, payload) ==
    IF ~s.available \/ payload \notin DOMAIN MQTT_TO_HVAC_MODE THEN Ignored(s)
    ELSE LET new_hvac_mode == MQTT_TO_HVAC_MODE[payload]
             old_hvac_mode == s.d.hvac_mode
             need == IF new_hvac_mode = "fan_only" /\ old_hvac_mode # "fan_only"
                        /\ s.d.fan_mode = "auto"
                     THEN TRUE ELSE s.d.need_fan_auto_correction
         IN  Handled([s.d EXCEPT !.hvac_mode = new_hvac_mode,
                                 !.need_fan_auto_correction = need,
                                 !.hvac_action = HvacActionOf(payload)], TRUE, need)

\* climate: temperature_received and target_temperature_received store float(payload)
TemperatureReceived(s, payload, field) ==
    IF ~s.available \/ ParseFloat(payload) = None THEN Ignored(s)
    ELSE Handled([s.d EXCEPT ![field] = ParseFloat(payload)], TRUE, FALSE)

FanSpeedReceivedKeepingFlag(s, payload) ==
    IF ~s.available \/ payload \notin DOMAIN MQTT_TO_HA_FAN THEN Ignored(s)
    ELSE Handled([s.d EXCEPT !.fan_mode = MQTT_TO_HA_FAN[payload]], TRUE, FALSE)

\* climate: fan_speed_received
FanSpeedReceived(s, payload) ==
    IF ~s.available \/ payload \notin DOMAIN MQTT_TO_HA_FAN THEN Ignored(s)
    ELSE LET new_fan_mode == MQTT_TO_HA_FAN[payload]
             need == IF s.d.need_fan_auto_correction /\ new_fan_mode # "auto"
                     THEN FALSE ELSE s.d.need_fan_auto_correction
         IN  Handled([s.d EXCEPT !.need_fan_auto_correction = need,
                                 !.fan_mode = new_fan_mode], TRUE, FALSE)

\* climate: swing_received
SwingReceived(s, payload) ==
    IF ~s.available \/ payload \notin DOMAIN MQTT_TO_HA_SWING THEN Ignored(s)
    ELSE Handled([s.d EXCEPT !.swing_mode = MQTT_TO_HA_SWING[payload]], TRUE, FALSE)

\* ModeSelect / FanSpeedSelect: message_received
SelectReceived(s, payload, options, codeField) ==
    IF ~s.available \/ payload \notin DOMAIN options THEN Ignored(s)
    ELSE Handled([s.d EXCEPT ![codeField] = payload, !.current_option = options[payload]],
                 TRUE, FALSE)

NumberReceivedUnchecked(s, payload) ==
    IF ~s.available \/ ParseFloat(payload) = None THEN Ignored(s)
    ELSE Handled([s.d EXCEPT !.native_value =
                                Some(Deg(RoundHalfEven(ParseFloat(payload)[1])))],
                 TRUE, FALSE)

\* TargetTemperatureNumber: message_received
NumberReceived(s, payload) ==
    IF ~s.available \/ ParseFloat(payload) = None THEN Ignored(s)
    ELSE LET temperature_int == RoundHalfEven(ParseFloat(payload)[1])
         IN  IF TEMP_MIN <= temperature_int /\ temperature_int <= TEMP_MAX
             THEN Handled([s.d EXCEPT !.native_value = Some(Deg(temperature_int))],
                          TRUE, FALSE)
             ELSE Ignored(s)

SensorReceivedKeepingValue(s, payload, is_target_temp) ==
    IF ~s.available \/ ParseFloat(payload) = None THEN Ignored(s)
    ELSE LET temperature == ParseFloat(payload)[1]
         IN  Handled([s.d EXCEPT !.native_value =
                        IF is_target_temp THEN Some(Deg(RoundHalfEven(temperature)))
                        ELSE Some(temperature)], TRUE, FALSE)

\* TemperatureSensor: message_received; the target sensor rounds to whole degrees.
SensorReceived(s, payload, is_target_temp) ==
    IF ~s.available THEN Ignored(s)
    ELSE IF ParseFloat(payload) = None
    THEN Handled([s.d EXCEPT !.native_value = None], TRUE, FALSE)
    ELSE LET temperature == ParseFloat(payload)[1]
         IN  Handled([s.d EXCEPT !.native_value =
                        IF is_target_temp THEN Some(Deg(RoundHalfEven(temperature)))
                        ELSE Some(temperature)], TRUE, FALSE)

SwitchReceivedUnknownIsOff(s, payload) ==
    IF ~s.available THEN Ignored(s)
    ELSE Handled([s.d EXCEPT !.state = IF payload = BLINDS_ON THEN TRUE ELSE FALSE],
                 TRUE, FALSE)

\* BlindsSwitch: message_received writes the state whatever the payload.
SwitchReceived(s, payload) ==
    IF ~s.available THEN Ignored(s)
    ELSE Handled([s.d EXCEPT !.state = IF payload = BLINDS_ON THEN TRUE
                                       ELSE IF payload = BLINDS_OFF THEN FALSE ELSE @],
                 TRUE, FALSE)

\* The callback entity e registered for topic tp.
Callback(e, tp, s, payload) ==
    CASE e = "climate" /\ tp = "mode_out" -> ModeReceived(s, payload)
      [] e = "climate" /\ tp = "temp_out" ->
            TemperatureReceived(s, payload, "current_temperature")
      [] e = "climate" /\ tp = "temp_comfort_out" ->
            TemperatureReceived(s, payload, "target_temperature")
      [] e = "climate" /\ tp = "fan_speed_out" -> FanSpeedReceived(s, payload)
      [] e = "climate" /\ tp = "backlight_out" -> SwingReceived(s, payload)
      [] e = "mode_select" ->
            SelectReceived(s, payload, MODE_SELECT_OPTIONS, "current_mode_mqtt")
      [] e = "fan_select" ->
            SelectReceived(s, payload, FAN_SELECT_OPTIONS, "current_fan_speed_mqtt")
      [] e = "number" -> NumberReceived(s, payload)
      [] e = "sensor_current" -> SensorReceived(s, payload, FALSE)
      [] e = "sensor_target" -> SensorReceived(s, payload, TRUE)
      [] e = "switch" -> SwitchReceived(s, payload)

\* The transport calls the callback of every active subscription of the topic, one
\* after the other; r collects the display, the writes and the tasks created.
RECURSIVE Deliver(_, _, _, _, _, _)
Deliver(e, tp, s, payload, n, r) ==
    IF n = 0 THEN r
    ELSE LET h == Callback(e, tp, [s EXCEPT !.d = r.d], payload)
         IN  Deliver(e, tp, s, payload, n - 1,
                     [d |-> h.d, wrote |-> r.wrote + (IF h.wrote THEN 1 ELSE 0),
                      spawn |-> r.spawn + (IF h.spawn THEN 1 ELSE 0)])

(***************************************************************************)
(* Commands.  A command evaluates its guards without suspending, then      *)
(* awaits one mqtt.async_publish after the other and updates the display   *)
(* after each; nothing is re-checked after a suspension.  Its plan is the  *)
(* sequence of those publishes, empty when a guard returns early.          *)
(***************************************************************************)
Publish(topic, payload, upd) == [topic |-> topic, payload |-> payload, upd |-> upd]

\* The display after the assignments that follow a completed publish.
Merge(d, upd) == [f \in DOMAIN d |-> IF f \in DOMAIN upd THEN upd[f] ELSE d[f]]

Max(a, b) == IF a > b THEN a ELSE b
Min(a, b) == IF a < b THEN a ELSE b

HvacModes == {"off", "auto", "cool", "dry", "heat", "fan_only"}
SwingModes == {"on", "off"}

FanModesIgnoringMode(s) ==
    IF ~s.available THEN {} ELSE {"auto", "low", "medium", "high"}

\* climate: the fan_modes property
FanModes(s) ==
    IF ~s.available THEN {}
    ELSE IF s.d.hvac_mode = "fan_only" THEN {"low", "medium", "high"}
    ELSE {"auto", "low", "medium", "high"}

SetFanModeUnrestricted(s, fan_mode) ==
    IF ~s.available THEN <<>>
    ELSE IF fan_mode \notin DOMAIN HA_TO_MQTT_FAN THEN <<>>
    ELSE <<Publish("fan_speed_in", HA_TO_MQTT_FAN[fan_mode], [fan_mode |-> fan_mode])>>

\* climate: async_set_fan_mode
SetFanMode(s, fan_mode) ==
    IF ~s.available THEN <<>>
    ELSE IF fan_mode \notin FanModes(s) THEN <<>>
    ELSE IF s.d.hvac_mode = "fan_only" /\ fan_mode = "auto" THEN <<>>
    ELSE IF fan_mode \notin DOMAIN HA_TO_MQTT_FAN THEN <<>>
    ELSE <<Publish("fan_speed_in", HA_TO_MQTT_FAN[fan_mode], [fan_mode |-> fan_mode])>>

SetHvacModeThenFan(s, hvac_mode) ==
    IF ~s.available THEN <<>>
    ELSE IF hvac_mode \notin HvacModes THEN <<>>
    ELSE IF hvac_mode \notin DOMAIN HA_TO_MQTT_MODES THEN <<>>
    ELSE <<Publish("mode_in", HA_TO_MQTT_MODES[hvac_mode], [hvac_mode |-> hvac_mode])>>
         \o (IF hvac_mode = "fan_only" /\ s.d.hvac_mode # "fan_only" /\ s.d.fan_mode = "auto"
             THEN SetFanMode(s, "low") ELSE <<>>)

\* climate: async_set_hvac_mode; entering fan-only with fan speed auto first awaits
\* async_set_fan_mode(FAN_LOW).
SetHvacMode(s, hvac_mode) ==
    IF ~s.available THEN <<>>
    ELSE IF hvac_mode \notin HvacModes THEN <<>>
    ELSE IF hvac_mode \notin DOMAIN HA_TO_MQTT_MODES THEN <<>>
    ELSE (IF hvac_mode = "fan_only" /\ s.d.hvac_mode # "fan_only" /\ s.d.fan_mode = "auto"
          THEN SetFanMode(s, "low") ELSE <<>>)
         \o <<Publish("mode_in", HA_TO_MQTT_MODES[hvac_mode], [hvac_mode |-> hvac_mode])>>

SetTemperatureShowingRequest(s, text) ==
    IF ~s.available THEN <<>>
    ELSE LET temperature == Max(Deg(TEMP_MIN), Min(Deg(TEMP_MAX), ParseFloat(text)[1]))
             temperature_int == RoundHalfEven(temperature)
         IN  <<Publish("temp_comfort_in", Str(temperature_int),
                       [target_temperature |-> ParseFloat(text)])>>

\* climate: async_set_temperature clamps, then rounds
SetTemperature(s, text) ==
    IF ~s.available THEN <<>>
    ELSE LET temperature == Max(Deg(TEMP_MIN), Min(Deg(TEMP_MAX), ParseFloat(text)[1]))
             temperature_int == RoundHalfEven(temperature)
         IN  <<Publish("temp_comfort_in", Str(temperature_int),
                       [target_temperature |-> Some(Deg(temperature_int))])>>

\* climate: async_set_swing_mode
SetSwingMode(s, swing_mode) ==
    IF ~s.available THEN <<>>
    ELSE IF swing_mode \notin SwingModes THEN <<>>
    ELSE IF swing_mode \notin DOMAIN HA_TO_MQTT_SWING THEN <<>>
    ELSE <<Publish("backlight_in", HA_TO_MQTT_SWING[swing_mode],
                   [swing_mode |-> swing_mode])>>

SelectOptionPublishingLabel(s, option, options, topic, codeField) ==
    IF ~s.available THEN <<>>
    ELSE IF \A c \in DOMAIN options : options[c] # option THEN <<>>
    ELSE LET mqtt_value == CHOOSE c \in DOMAIN options : options[c] = option
         IN  <<Publish(topic, option,
                       [c \in {codeField, "current_option"} |->
                          IF c = codeField THEN mqtt_value ELSE option])>>

\* ModeSelect / FanSpeedSelect: async_select_option looks the label up in the options.
SelectOption(s, option, options, topic, codeField) ==
    IF ~s.available THEN <<>>
    ELSE IF \A c \in DOMAIN options : options[c] # option THEN <<>>
    ELSE LET mqtt_value == CHOOSE c \in DOMAIN options : options[c] = option
         IN  <<Publish(topic, mqtt_value,
                       [c \in {codeField, "current_option"} |->
                          IF c = codeField THEN mqtt_value ELSE option])>>

SetNativeValueClamping(s, text) ==
    IF ~s.available THEN <<>>
    ELSE LET temp_int == Max(TEMP_MIN, Min(TEMP_MAX, RoundHalfEven(ParseFloat(text)[1])))
         IN  <<Publish("temp_comfort_in", Str(temp_int),
                       [native_value |-> Some(Deg(temp_int))])>>

\* TargetTemperatureNumber: async_set_native_value rounds, then rejects out of range
SetNativeValue(s, text) ==
    IF ~s.available THEN <<>>
    ELSE LET temp_int == RoundHalfEven(ParseFloat(text)[1])
         IN  IF temp_int < TEMP_MIN \/ temp_int > TEMP_MAX THEN <<>>
             ELSE <<Publish("temp_comfort_in", Str(temp_int),
                            [native_value |-> Some(Deg(temp_int))])>>

TurnWithoutGuard(s, payload) ==
    <<Publish("backlight_in", payload, [state |-> (payload = BLINDS_ON)])>>

\* BlindsSwitch: async_turn_on (payload BLINDS_ON) and async_turn_off (BLINDS_OFF)
Turn(s, payload) ==
    IF ~s.available THEN <<>>
    ELSE <<Publish("backlight_in", payload, [state |-> (payload = BLINDS_ON)])>>

\* The command op of entity e, called with arg.
CommandPlan(e, op, arg, s) ==
    CASE op = "set_hvac_mode" -> SetHvacMode(s, arg)
      [] op = "set_fan_mode" -> SetFanMode(s, arg)
      [] op = "set_temperature" -> SetTemperature(s, arg)
      [] op = "set_swing_mode" -> SetSwingMode(s, arg)
      [] op = "select_option" /\ e = "mode_select" ->
            SelectOption(s, arg, MODE_SELECT_OPTIONS, "mode_in", "current_mode_mqtt")
      [] op = "select_option" /\ e = "fan_select" ->
            SelectOption(s, arg, FAN_SELECT_OPTIONS, "fan_speed_in",
                         "current_fan_speed_mqtt")
      [] op = "set_native_value" -> SetNativeValue(s, arg)
      [] op = "turn_on" -> Turn(s, BLINDS_ON)
      [] op = "turn_off" -> Turn(s, BLINDS_OFF)

\* _correct_fan_speed_for_mode up to its first suspension: the publishes it awaits
\* and whether it has already cleared the flag.
CorrectFanSpeedForMode(s) ==
    IF ~s.d.need_fan_auto_correction \/ ~s.available
    THEN [plan |-> <<>>, d |-> s.d]
    ELSE LET plan == IF s.d.hvac_mode = "fan_only" /\ s.d.fan_mode = "auto"
                     THEN SetFanMode(s, "low") ELSE <<>>
         IN  [plan |-> plan,
              d |-> IF plan = <<>> THEN [s.d EXCEPT !.need_fan_auto_correction = FALSE]
                    ELSE s.d]

(***************************************************************************)
(* The traffic explored: each behaviour exercises one feature of one       *)
(* entity, with the inbound payloads and the command arguments below.      *)
(***************************************************************************)
Feature(e, topics, ops) == [e |-> e, topics |-> topics, ops |-> ops]

NumericTexts == {p \in TempTexts : ParseFloat(p) # None}

Features ==
    { Feature("climate", {"mode_out", "fan_speed_out"},
              ({"set_hvac_mode"} \X (HvacModes \cup {"heat_cool"}))
              \cup ({"set_fan_mode"} \X {"auto", "low", "medium", "high", "turbo"})),
      Feature("climate", {"temp_out", "temp_comfort_out"},
              {"set_temperature"} \X NumericTexts),
      Feature("climate", {"backlight_out"}, {"set_swing_mode"} \X {"on", "off", "both"}),
      Feature("mode_select", {"mode_out"},
              {"select_option"} \X (Range(MODE_SELECT_OPTIONS) \cup {"Turbo"})),
      Feature("fan_select", {"fan_speed_out"},
              {"select_option"} \X (Range(FAN_SELECT_OPTIONS) \cup {"Turbo"})),
      Feature("number", {"temp_comfort_out"}, {"set_native_value"} \X NumericTexts),
      Feature("sensor_current", {"temp_out"}, {}),
      Feature("sensor_target", {"temp_comfort_out"}, {}),
      Feature("switch", {"backlight_out"}, {"turn_on", "turn_off"} \X {""}) }

\* Payloads on the inbound topics: every code of the table and one unknown value.
InboundPayloads(tp) ==
    CASE tp = "mode_out" -> DOMAIN MODE_MAPPING \cup {"9"}
      [] tp = "fan_speed_out" -> DOMAIN FAN_SPEEDS \cup {"9"}
      [] tp = "backlight_out" -> DOMAIN SWING_MODES \cup {"9"}
      [] OTHER -> TempTexts

(***************************************************************************)
(* DeviceAvailabilityManager                                               *)
(***************************************************************************)
AddEntityAssumingOnline(entities, available, e, s) ==
    [entities |-> Append(entities, e), s |-> [s EXCEPT !.available = TRUE]]

\* add_entity: append, then prime the entity's flag with the manager's.
AddEntity(entities, available, e, s) ==
    [entities |-> Append(entities, e), s |-> [s EXCEPT !.available = available]]

\* remove_entity: list.remove of the first occurrence, if present.
RECURSIVE RemoveFirst(_, _)
RemoveFirst(entities, e) ==
    IF entities = <<>> THEN <<>>
    ELSE IF Head(entities) = e THEN Tail(entities)
    ELSE <<Head(entities)>> \o RemoveFirst(Tail(entities), e)

RemoveEntityPopping(entities, e) ==
    IF e \in Range(entities) THEN SubSeq(entities, 1, Len(entities) - 1) ELSE entities

RemoveEntity(entities, e) ==
    IF e \in Range(entities) THEN RemoveFirst(entities, e) ELSE entities

\* A task is identified by the connectivity message that made it (0: made by the
\* host) and the entity it runs on.
Task(msg, kind, e, v) ==
    [id |-> <<msg, e>>, kind |-> kind, e |-> e, v |-> v, pc |-> 0, log |-> <<>>,
     waitsFor |-> {}]

DispatchSkippingFirst(entities, v, msg) ==
    [tasks |-> [i \in 1..(Len(entities) - 1) |-> Task(msg, "avail", entities[i + 1], v)],
     awaiting |-> {}]

\* The fan-out written as "await entity.on_availability_changed(v)" in the loop: each
\* call starts when the one before it has finished, and the callback waits for all.
DispatchAwaitingEach(entities, v, msg) ==
    [tasks |-> [i \in 1..Len(entities) |->
                  [Task(msg, "avail", entities[i], v) EXCEPT
                     !.waitsFor = {<<msg, entities[j]>> : j \in 1..(i - 1)}]],
     awaiting |-> {<<msg, entities[i]>> : i \in 1..Len(entities)}]

\* for entity in self._entities: hass.async_create_task(entity.on_availability_changed(v))
\* Every task is independent of the others, and the callback waits for none of them.
Dispatch(entities, v, msg) ==
    [tasks |-> [i \in 1..Len(entities) |-> Task(msg, "avail", entities[i], v)],
     awaiting |-> {}]

\* availability_received(message): the callback of the connectivity subscription.
AvailabilityCallback(available, entities, payload, msg) ==
    LET new_available == (payload = CONNECTED_ONLINE)
    IN  IF new_available # available
        THEN [available |-> new_available] @@ Dispatch(entities, new_available, msg)
        ELSE [available |-> available, tasks |-> <<>>, awaiting |-> {}]

LiveIds == {runq[i].id : i \in DOMAIN runq} \cup {t.id : t \in susp}

Finished(e, v, outcome, log) == [e |-> e, v |-> v, outcome |-> outcome, log |-> log]

(***************************************************************************)
(* async_setup_entry: the platforms construct their entities, then the     *)
(* manager's setup() subscribes to the connectivity topic.                 *)
(***************************************************************************)
\* GSACBaseEntity.__init__ -> _register_with_availability_manager
Register(e) ==
    /\ phase = "platforms"
    /\ e \in roster
    /\ ent[e].life = "none"
    /\ LET r == AddEntity(mgrEntities, mgrAvailable, e, NewEntity(e))
       IN  /\ mgrEntities' = r.entities
           /\ ent' = [ent EXCEPT ![e] = r.s]
    /\ UNCHANGED trafficVars
    /\ UNCHANGED <<roster, phase, mgrAvailable, mgrAwaiting, active, runq, susp,
                   nfaults, nmsgs, lastPayload, done>>

\* DeviceAvailabilityManager.setup up to its await: mqtt.async_subscribe registers
\* availability_received, and setup() is suspended until the transport answers.
MgrSetupSubscribe ==
    /\ phase = "platforms"
    /\ \A e \in roster : ent[e].life # "none"
    /\ phase' = "subscribing"
    /\ UNCHANGED trafficVars
    /\ UNCHANGED <<roster, mgrAvailable, mgrEntities, mgrAwaiting, ent, active, runq,
                   susp, nfaults, nmsgs, lastPayload, done>>

\* DeviceAvailabilityManager.setup resumed: self._available = False
MgrSetupFinish ==
    /\ phase = "subscribing"
    /\ phase' = "running"
    /\ mgrAvailable' = FALSE
    /\ UNCHANGED trafficVars
    /\ UNCHANGED <<roster, mgrEntities, mgrAwaiting, ent, active, runq, susp,
                   nfaults, nmsgs, lastPayload, done>>

\* async_unload_entry once async_unload_platforms has removed every entity: the
\* entry's data is dropped; the manager is not told.
UnloadEntry ==
    /\ phase = "running"
    /\ \A e \in roster : ent[e].life = "removed"
    /\ phase' = "unloaded"
    /\ UNCHANGED trafficVars
    /\ UNCHANGED <<roster, mgrAvailable, mgrEntities, mgrAwaiting, ent, active, runq,
                   susp, nfaults, nmsgs, lastPayload, done>>

\* The manager's subscription to the connectivity topic: setup() makes it and drops
\* the unsubscribe handle mqtt.async_subscribe returns, so nothing cancels it.
MgrSubscribed == phase \in {"subscribing", "running", "unloaded"}

\* The transport delivers one message on {id}/connected/out to availability_received.
AvailabilityReceived(payload) ==
    /\ MgrSubscribed
    /\ nmsgs < MaxMsgs
    /\ mgrAwaiting \cap LiveIds = {}
    /\ LET r == AvailabilityCallback(mgrAvailable, mgrEntities, payload, nmsgs + 1)
       IN  /\ mgrAvailable' = r.available
           /\ runq' = runq \o r.tasks
           /\ mgrAwaiting' = r.awaiting
    /\ nmsgs' = nmsgs + 1
    /\ lastPayload' = payload
    /\ UNCHANGED trafficVars
    /\ UNCHANGED <<roster, phase, mgrEntities, ent, active, susp, nfaults, done>>

(***************************************************************************)
(* Entity lifecycle on the host                                            *)
(***************************************************************************)
\* async_added_to_hass: ready; when already available, start the subscribe loop.
AddedToHass(e) ==
    /\ ent[e].life = "constructed"
    /\ LET c0 == [Ctx(e) EXCEPT !.s.ready = TRUE, !.s.life = "added"]
           c  == IF c0.s.available THEN SubscribeCall(c0, SubTopics(e)[1]) ELSE c0
       IN  /\ ent' = [ent EXCEPT ![e] = c.s]
           /\ active' = [active EXCEPT ![e] = c.act]
           /\ IF c0.s.available
              THEN susp' = susp \cup {[Task(0, "added", e, TRUE) EXCEPT !.pc = 1]}
              ELSE UNCHANGED susp
    /\ UNCHANGED trafficVars
    /\ UNCHANGED <<roster, phase, mgrAvailable, mgrEntities, mgrAwaiting, runq,
                   nfaults, nmsgs, lastPayload, done>>

\* async_will_remove_from_hass
WillRemoveFromHass(e) ==
    /\ ent[e].life = "added"
    /\ LET c == UnsubscribeMqtt([Ctx(e) EXCEPT !.s.ready = FALSE, !.s.life = "removed"])
       IN  /\ ent' = [ent EXCEPT ![e] = c.s]
           /\ active' = [active EXCEPT ![e] = c.act]
    /\ mgrEntities' = RemoveEntity(mgrEntities, e)
    /\ UNCHANGED trafficVars
    /\ UNCHANGED <<roster, phase, mgrAvailable, mgrAwaiting, runq, susp, nfaults,
                   nmsgs, lastPayload, done>>

StartTaskWithoutEarlyReturn ==
    /\ runq # <<>>
    /\ Head(runq).kind = "avail"
    /\ Head(runq).waitsFor \cap LiveIds = {}
    /\ LET t == Head(runq)
           e == t.e
       IN  IF ~t.v
           THEN LET c == BecomeUnavailable(e, Ctx(e))
                IN  /\ ent' = [ent EXCEPT ![e] = c.s]
                    /\ active' = [active EXCEPT ![e] = c.act]
                    /\ done' = Finished(e, FALSE, "ok", c.log)
                    /\ UNCHANGED susp
           ELSE LET c == BecomeAvailable(e, Ctx(e))
                IN  /\ ent' = [ent EXCEPT ![e] = c.s]
                    /\ active' = [active EXCEPT ![e] = c.act]
                    /\ susp' = susp \cup {[t EXCEPT !.pc = 1, !.log = c.log]}
                    /\ UNCHANGED done
    /\ runq' = Tail(runq)
    /\ UNCHANGED trafficVars
    /\ UNCHANGED <<roster, phase, mgrAvailable, mgrEntities, mgrAwaiting, nfaults,
                   nmsgs, lastPayload>>

(***************************************************************************)
(* The event loop                                                          *)
(***************************************************************************)
\* The task at the head of the ready queue runs on_availability_changed(v) up to
\* its first suspension or to its end.
StartTask ==
    /\ runq # <<>>
    /\ Head(runq).kind = "avail"
    /\ Head(runq).waitsFor \cap LiveIds = {}
    /\ LET t == Head(runq)
           e == t.e
       IN  IF ent[e].available = t.v
           THEN /\ done' = Finished(e, t.v, "noop", <<>>)
                /\ UNCHANGED <<ent, active, susp>>
           ELSE IF ~t.v
           THEN LET c == BecomeUnavailable(e, Ctx(e))
                IN  /\ ent' = [ent EXCEPT ![e] = c.s]
                    /\ active' = [active EXCEPT ![e] = c.act]
                    /\ done' = Finished(e, FALSE, "ok", c.log)
                    /\ UNCHANGED susp
           ELSE LET c == BecomeAvailable(e, Ctx(e))
                IN  /\ ent' = [ent EXCEPT ![e] = c.s]
                    /\ active' = [active EXCEPT ![e] = c.act]
                    /\ susp' = susp \cup {[t EXCEPT !.pc = 1, !.log = c.log]}
                    /\ UNCHANGED done
    /\ runq' = Tail(runq)
    /\ UNCHANGED trafficVars
    /\ UNCHANGED <<roster, phase, mgrAvailable, mgrEntities, mgrAwaiting, nfaults,
                   nmsgs, lastPayload>>

\* The transport answers the subscribe a task is suspended in: the task records the
\* handle and runs to its next subscribe or to its end.
ResumeTask(t) ==
    /\ t \in susp
    /\ LET e  == t.e
           c1 == SubscribeLoopStep(e, [Ctx(e) EXCEPT !.log = t.log], t.pc)
           more == t.pc < Len(SubTopics(e))
           c  == IF ~more /\ t.kind = "avail" THEN FinishAvailabilityChange(c1) ELSE c1
       IN  /\ ent' = [ent EXCEPT ![e] = c.s]
           /\ active' = [active EXCEPT ![e] = c.act]
           /\ susp' = IF more
                      THEN (susp \ {t}) \cup {[t EXCEPT !.pc = t.pc + 1, !.log = c.log]}
                      ELSE susp \ {t}
           /\ done' = IF ~more /\ t.kind = "avail"
                      THEN Finished(e, t.v, "ok", c.log)
                      ELSE done
    /\ UNCHANGED trafficVars
    /\ UNCHANGED <<roster, phase, mgrAvailable, mgrEntities, mgrAwaiting, runq,
                   nfaults, nmsgs, lastPayload>>

\* The subscribe a task is suspended in raises: no subscription is made and the
\* exception ends the task.
SubscribeFails(t) ==
    /\ t \in susp
    /\ nfaults < MaxFaults
    /\ nfaults' = nfaults + 1
    /\ active' = [active EXCEPT ![t.e][SubTopics(t.e)[t.pc]] = @ - 1]
    /\ susp' = susp \ {t}
    /\ done' = IF t.kind = "avail"
               THEN Finished(t.e, t.v, "failed", t.log)
               ELSE done
    /\ UNCHANGED trafficVars
    /\ UNCHANGED <<roster, phase, mgrAvailable, mgrEntities, mgrAwaiting, ent, runq,
                   nmsgs, lastPayload>>

Next ==
    \/ \E e \in Kinds : Register(e)
    \/ MgrSetupSubscribe
    \/ MgrSetupFinish
    \/ \E p \in ConnPayloads : AvailabilityReceived(p)
    \/ \E e \in Kinds : AddedToHass(e)
    \/ \E e \in Kinds : WillRemoveFromHass(e)
    \/ UnloadEntry
    \/ StartTask
    \/ \E t \in susp : ResumeTask(t)
    \/ \E t \in susp : SubscribeFails(t)

Spec == Init /\ [][Next]_vars

\* The tasks of entity e that the transport can resume.
ResumeOf(e) == \E t \in susp : t.e = e /\ ResumeTask(t)

\* The fan-out on its own: setup() has just subscribed, after both entities had
\* registered (in either order) and had been added to the host.
FanOutInit ==
    /\ roster \in Rosters
    /\ phase = "subscribing"
    /\ mgrAvailable = FALSE
    /\ mgrEntities \in {q \in [1..Cardinality(roster) -> roster] : Range(q) = roster}
    /\ mgrAwaiting = {}
    /\ ent = [e \in Kinds |->
                IF e \in roster
                THEN [NewEntity(e) EXCEPT !.life = "added", !.ready = TRUE]
                ELSE NoEntity(e)]
    /\ active = [e \in Kinds |-> [t \in Topics |-> 0]]
    /\ runq = <<>>
    /\ susp = {}
    /\ nfaults = 0
    /\ nmsgs = 0
    /\ lastPayload = "none"
    /\ done = NoCall
    /\ NoTraffic

FanOutNext ==
    \/ MgrSetupFinish
    \/ \E p \in ConnPayloads : AvailabilityReceived(p)
    \/ StartTask
    \/ \E t \in susp : ResumeTask(t)
    \/ \E t \in susp : SubscribeFails(t)

\* The event loop runs every ready task, and the transport answers every subscribe
\* of the switch; the mode selector's subscribes may stay unanswered forever.
FairSpec ==
    FanOutInit /\ [][FanOutNext]_vars /\ WF_vars(StartTask) /\ WF_vars(ResumeOf("switch"))

(***************************************************************************)
(* Device traffic and commands of one entity                               *)
(***************************************************************************)
\* Number of inbound device messages and commands one behaviour carries.
MaxEvents == 2

Call(kind, e, plan) == [kind |-> kind, e |-> e, plan |-> plan, pc |-> 1]

RemoveAt(q, i) == SubSeq(q, 1, i - 1) \o SubSeq(q, i + 1, Len(q))

\* The transport delivers payload on topic tp to the callbacks subscribed to it.
Inbound(tp, payload) ==
    /\ nev < MaxEvents
    /\ tp \in feature.topics
    /\ active[feature.e][tp] > 0
    /\ LET e == feature.e
           r == Deliver(e, tp, ent[e], payload, active[e][tp], Handled(ent[e].d, 0, 0))
       IN  /\ ent' = [ent EXCEPT ![e].d = r.d]
           /\ runq' = runq \o [i \in 1..r.spawn |-> Task(0 - (nev + 1), "correct", e, FALSE)]
           /\ lastEv' = Event("in", tp, payload, ent[e], Len(calls), Len(published), r.wrote)
    /\ nev' = nev + 1
    /\ UNCHANGED <<roster, phase, mgrAvailable, mgrEntities, mgrAwaiting, active, susp,
                   nfaults, nmsgs, lastPayload, done, feature, calls, published,
                   lastFailure, conv, probe>>

\* The host calls a command of the entity: it runs to its first publish or returns.
Command(op, arg) ==
    /\ nev < MaxEvents
    /\ <<op, arg>> \in feature.ops
    /\ LET e == feature.e
           plan == CommandPlan(e, op, arg, ent[e])
       IN  calls' = IF plan = <<>> THEN calls ELSE Append(calls, Call("cmd", e, plan))
    /\ lastEv' = Event("cmd", op, arg, ent[feature.e], Len(calls), Len(published), 0)
    /\ nev' = nev + 1
    /\ UNCHANGED <<roster, phase, mgrAvailable, mgrEntities, mgrAwaiting, ent, active,
                   runq, susp, nfaults, nmsgs, lastPayload, done, feature, published,
                   lastFailure, conv, probe>>

\* The task at the head of the ready queue runs _correct_fan_speed_for_mode up to
\* its first suspension or to its end.
StartCorrection ==
    /\ runq # <<>>
    /\ Head(runq).kind = "correct"
    /\ LET e == Head(runq).e
           r == CorrectFanSpeedForMode(ent[e])
       IN  /\ ent' = [ent EXCEPT ![e].d = r.d]
           /\ calls' = IF r.plan = <<>> THEN calls
                       ELSE Append(calls, Call("correct", e, r.plan))
    /\ runq' = Tail(runq)
    /\ UNCHANGED <<roster, phase, mgrAvailable, mgrEntities, mgrAwaiting, active, susp,
                   nfaults, nmsgs, lastPayload, done, feature, published, nev, lastEv,
                   lastFailure, conv, probe>>

\* The publish the i-th suspended call awaits completes: the message is out, the
\* call assigns the display and goes on to its next publish or to its end.  The
\* correction clears its flag once async_set_fan_mode has returned.
PublishDone(i) ==
    /\ i \in DOMAIN calls
    /\ LET c == calls[i]
           step == c.plan[c.pc]
           last == c.pc = Len(c.plan)
           d1 == Merge(ent[c.e].d, step.upd)
           d2 == IF last /\ c.kind = "correct"
                 THEN [d1 EXCEPT !.need_fan_auto_correction = FALSE] ELSE d1
       IN  /\ published' = Append(published, <<step.topic, step.payload>>)
           /\ ent' = [ent EXCEPT ![c.e].d = d2]
           /\ calls' = IF last THEN RemoveAt(calls, i)
                       ELSE [calls EXCEPT ![i].pc = c.pc + 1]
    /\ UNCHANGED <<roster, phase, mgrAvailable, mgrEntities, mgrAwaiting, active, runq,
                   susp, nfaults, nmsgs, lastPayload, done, feature, nev, lastEv,
                   lastFailure, conv, probe>>

PublishErrorSwallowedBySwitch(e) ==
    CASE e = "switch" -> "returned"
      [] e = "number" -> "raised"
      [] OTHER -> "raised"

\* How a command of entity e ends when mqtt.async_publish raises: the switch and the
\* number catch the exception, log it and raise it again; the other commands await
\* the publish outside any try block.
PublishErrorOutcome(e) ==
    CASE e = "switch" -> "raised"
      [] e = "number" -> "raised"
      [] OTHER -> "raised"

PublishFailsAfterAssigning(i) ==
    /\ i \in DOMAIN calls
    /\ nfaults < MaxFaults
    /\ nfaults' = nfaults + 1
    /\ calls' = RemoveAt(calls, i)
    /\ ent' = [ent EXCEPT ![calls[i].e].d = Merge(@, calls[i].plan[calls[i].pc].upd)]
    /\ lastFailure' = [kind |-> calls[i].kind, e |-> calls[i].e,
                       outcome |-> PublishErrorOutcome(calls[i].e)]
    /\ UNCHANGED <<roster, phase, mgrAvailable, mgrEntities, mgrAwaiting, active,
                   runq, susp, nmsgs, lastPayload, done, feature, published, nev, lastEv,
                   conv, probe>>

\* The publish the i-th suspended call awaits raises: nothing is sent and the
\* exception ends the call.
PublishFails(i) ==
    /\ i \in DOMAIN calls
    /\ nfaults < MaxFaults
    /\ nfaults' = nfaults + 1
    /\ calls' = RemoveAt(calls, i)
    /\ lastFailure' = [kind |-> calls[i].kind, e |-> calls[i].e,
                       outcome |-> PublishErrorOutcome(calls[i].e)]
    /\ UNCHANGED <<roster, phase, mgrAvailable, mgrEntities, mgrAwaiting, ent, active,
                   runq, susp, nmsgs, lastPayload, done, feature, published, nev, lastEv,
                   conv, probe>>

\* One entity of any class, set up and added to the host, the manager running and
\* no connectivity message received yet.
EntityStart ==
    /\ roster = {feature.e}
    /\ phase = "running"
    /\ mgrAvailable = FALSE
    /\ mgrEntities = <<feature.e>>
    /\ mgrAwaiting = {}
    /\ ent = [e \in Kinds |->
                IF e = feature.e
                THEN [NewEntity(e) EXCEPT !.life = "added", !.ready = TRUE]
                ELSE NoEntity(e)]
    /\ active = [e \in Kinds |-> [t \in Topics |-> 0]]
    /\ runq = <<>>
    /\ susp = {}
    /\ nfaults = 0
    /\ nmsgs = 0
    /\ lastPayload = "none"
    /\ done = NoCall
    /\ calls = <<>>
    /\ published = <<>>
    /\ nev = 0
    /\ lastEv = NoEvent(ent[feature.e])
    /\ lastFailure = NoFailure
    /\ conv = NoConv
    /\ probe = NoProbe

EntityInit == feature \in Features /\ EntityStart

\* The climate entity with its mode and fan-speed traffic.
FanInit ==
    /\ feature \in {f \in Features : f.e = "climate" /\ "mode_out" \in f.topics}
    /\ EntityStart

\* What happens with a transport that delivers every publish.
ReliableNext ==
    \/ \E p \in ConnPayloads : AvailabilityReceived(p)
    \/ StartTask
    \/ \E t \in susp : ResumeTask(t)
    \/ \E tp \in Topics : \E p \in InboundPayloads(tp) : Inbound(tp, p)
    \/ \E c \in feature.ops : Command(c[1], c[2])
    \/ StartCorrection
    \/ \E i \in DOMAIN calls : PublishDone(i)

EntityNext ==
    \/ ReliableNext
    \/ \E i \in DOMAIN calls : PublishFails(i)

EntitySpec == EntityInit /\ [][EntityNext]_vars

\* The fan-speed correction on a reliable transport: the event loop runs every ready
\* task and every publish completes.
FanSpec ==
    /\ FanInit
    /\ [][ReliableNext]_vars
    /\ WF_vars(StartTask)
    /\ WF_vars(StartCorrection)
    /\ WF_vars(\E i \in DOMAIN calls : PublishDone(i))


(***************************************************************************)
(* The fan-speed selector next to the climate entity: both are set up,     *)
(* the device reports its mode to the climate entity and the user drives   *)
(* the selector.                                                           *)
(***************************************************************************)
PairFeature ==
    Feature("fan_select", {"fan_speed_out"},
            {"select_option"} \X Range(FAN_SELECT_OPTIONS))

\* Both entities set up and added to the host, the manager running and no
\* connectivity message received yet.
PairStart ==
    /\ roster = {"climate", "fan_select"}
    /\ phase = "running"
    /\ mgrAvailable = FALSE
    /\ mgrEntities = <<"climate", "fan_select">>
    /\ mgrAwaiting = {}
    /\ ent = [e \in Kinds |->
                IF e \in {"climate", "fan_select"}
                THEN [NewEntity(e) EXCEPT !.life = "added", !.ready = TRUE]
                ELSE NoEntity(e)]
    /\ active = [e \in Kinds |-> [t \in Topics |-> 0]]
    /\ runq = <<>>
    /\ susp = {}
    /\ nfaults = 0
    /\ nmsgs = 0
    /\ lastPayload = "none"
    /\ done = NoCall
    /\ calls = <<>>
    /\ published = <<>>
    /\ nev = 0
    /\ lastEv = NoEvent(ent["climate"])
    /\ lastFailure = NoFailure
    /\ conv = NoConv
    /\ probe = NoProbe

PairInit == feature = PairFeature /\ PairStart

\* The transport delivers a mode message to the climate entity's mode_received.
ModeReported(payload) ==
    /\ nev < MaxEvents
    /\ feature = PairFeature
    /\ active["climate"]["mode_out"] > 0
    /\ LET r == Deliver("climate", "mode_out", ent["climate"], payload,
                        active["climate"]["mode_out"],
                        Handled(ent["climate"].d, 0, 0))
       IN  /\ ent' = [ent EXCEPT !["climate"].d = r.d]
           /\ runq' = runq \o [i \in 1..r.spawn |->
                                 Task(0 - (nev + 1), "correct", "climate", FALSE)]
           /\ lastEv' = Event("in", "mode_out", payload, ent["climate"], Len(calls),
                              Len(published), r.wrote)
    /\ nev' = nev + 1
    /\ UNCHANGED <<roster, phase, mgrAvailable, mgrEntities, mgrAwaiting, active, susp,
                   nfaults, nmsgs, lastPayload, done, feature, calls, published,
                   lastFailure, conv, probe>>

PairNext ==
    \/ EntityNext
    \/ \E p \in InboundPayloads("mode_out") : ModeReported(p)

PairSpec == PairInit /\ [][PairNext]_vars

(***************************************************************************)
(* The code tables on their own: one wire code or one domain value is      *)
(* taken through a table and back through the table of the other           *)
(* direction.                                                              *)
(***************************************************************************)
\* table.get(x), and the guarded table[x] of the callbacks: None for a missing key.
Lookup(table, x) == IF x \in DOMAIN table THEN Some(table[x]) ELSE None

\* async_select_option's loop over the options: the wire code of a label.
LabelToMqtt(options) ==
    [l \in Range(options) |-> CHOOSE c \in DOMAIN options : options[c] = l]

ConvTables == {"mode", "climate_mode", "fan", "swing", "mode_label", "fan_label"}

\* The table that decodes a wire code: the climate entity decodes modes with its own
\* table, the selectors decode to labels.
Decoder(t) ==
    CASE t = "mode" -> MQTT_TO_HA_MODES
      [] t = "climate_mode" -> MQTT_TO_HVAC_MODE
      [] t = "fan" -> MQTT_TO_HA_FAN
      [] t = "swing" -> MQTT_TO_HA_SWING
      [] t = "mode_label" -> MODE_SELECT_OPTIONS
      [] t = "fan_label" -> FAN_SELECT_OPTIONS

\* The table that encodes a domain value, or a label, as a wire code.
Encoder(t) ==
    CASE t \in {"mode", "climate_mode"} -> HA_TO_MQTT_MODES
      [] t = "fan" -> HA_TO_MQTT_FAN
      [] t = "swing" -> HA_TO_MQTT_SWING
      [] t = "mode_label" -> LabelToMqtt(MODE_SELECT_OPTIONS)
      [] t = "fan_label" -> LabelToMqtt(FAN_SELECT_OPTIONS)

Conv(table, first, input) ==
    [table |-> table, first |-> first, input |-> input, steps |-> 0, value |-> Some(input)]

\* Every key of every table, to be decoded then encoded, or encoded then decoded.
ConvInputs ==
    UNION {{Conv(t, "decode", c) : c \in DOMAIN Decoder(t)}
           \cup {Conv(t, "encode", v) : v \in DOMAIN Encoder(t)} : t \in ConvTables}

ConvInit ==
    /\ conv \in ConvInputs
    /\ roster = {}
    /\ phase = "platforms"
    /\ mgrAvailable = FALSE
    /\ mgrEntities = <<>>
    /\ mgrAwaiting = {}
    /\ ent = [e \in Kinds |-> NoEntity(e)]
    /\ active = [e \in Kinds |-> [t \in Topics |-> 0]]
    /\ runq = <<>>
    /\ susp = {}
    /\ nfaults = 0
    /\ nmsgs = 0
    /\ lastPayload = "none"
    /\ done = NoCall
    /\ feature = [e |-> "none", topics |-> {}, ops |-> {}]
    /\ calls = <<>>
    /\ published = <<>>
    /\ nev = 0
    /\ lastEv = NoEvent(NoEntity("none"))
    /\ lastFailure = NoFailure
    /\ probe = NoProbe

\* The direction of the next lookup: the first one, then the opposite one.
NextLookup ==
    IF conv.steps = 0 THEN conv.first
    ELSE IF conv.first = "decode" THEN "encode" ELSE "decode"

\* One lookup of the current value in the table of direction dir.
LookupStep(dir) ==
    /\ conv.steps < 2
    /\ conv.value # None
    /\ NextLookup = dir
    /\ conv' = [conv EXCEPT !.steps = @ + 1,
                            !.value = Lookup(IF dir = "decode" THEN Decoder(conv.table)
                                             ELSE Encoder(conv.table), conv.value[1])]
    /\ UNCHANGED <<roster, phase, mgrAvailable, mgrEntities, mgrAwaiting, ent, active,
                   runq, susp, nfaults, nmsgs, lastPayload, done, feature, calls,
                   published, nev, lastEv, lastFailure, probe>>

DecodeStep == LookupStep("decode")

EncodeStep == LookupStep("encode")

ConvNext == DecodeStep \/ EncodeStep

ConvSpec == ConvInit /\ [][ConvNext]_vars

(***************************************************************************)
(* ConfigFlow._check_mqtt_topic_exists: the probe of the setup step        *)
(***************************************************************************)
MaxProbeMsgs == 3

\* Topics under {id}/ a message can arrive on while the probe runs: a device topic,
\* the LWT topic {id}/status, and a test topic the probe ignores.
ProbeTopics == {"mode/out", "status", "ping"}

\* What calling an unsubscribe handle a second time does is Home Assistant's choice,
\* not this repository's: it is a no-op or it raises HomeAssistantError.
SecondUnsubscribe == {"ignored", "raises"}

\* The frame of a probe step.
ProbeOnly ==
    UNCHANGED <<roster, phase, mgrAvailable, mgrEntities, mgrAwaiting, ent, active,
                runq, susp, nfaults, nmsgs, lastPayload, done, feature, calls,
                published, nev, lastEv, lastFailure, conv>>

\* The outer finally: unsubscribe() when the first subscribe had returned a handle.
ProbeReturns(result) ==
    probe' = [probe EXCEPT !.pc = "done", !.result = result, !.subs = {}]

ProbeInit ==
    /\ probe \in {[NoProbe EXCEPT !.pc = "start", !.connected = c, !.again = a] :
                     c \in BOOLEAN, a \in SecondUnsubscribe}
    /\ roster = {}
    /\ phase = "platforms"
    /\ mgrAvailable = FALSE
    /\ mgrEntities = <<>>
    /\ mgrAwaiting = {}
    /\ ent = [e \in Kinds |-> NoEntity(e)]
    /\ active = [e \in Kinds |-> [t \in Topics |-> 0]]
    /\ runq = <<>>
    /\ susp = {}
    /\ nfaults = 0
    /\ nmsgs = 0
    /\ lastPayload = "none"
    /\ done = NoCall
    /\ feature = [e |-> "none", topics |-> {}, ops |-> {}]
    /\ calls = <<>>
    /\ published = <<>>
    /\ nev = 0
    /\ lastEv = NoEvent(NoEntity("none"))
    /\ lastFailure = NoFailure
    /\ conv = NoConv

\* The check of mqtt.is_connected, then the call of mqtt.async_subscribe on {id}/#.
ProbeStart ==
    /\ probe.pc = "start"
    /\ IF ~probe.connected THEN ProbeReturns("not_found")
       ELSE probe' = [probe EXCEPT !.pc = "subscribing", !.subs = {"wildcard"}]
    /\ ProbeOnly

\* A subscribe returns its handle: the wait that follows it begins.
ProbeSubscribed ==
    /\ probe.pc \in {"subscribing", "subscribing_lwt"}
    /\ probe' = [probe EXCEPT !.pc = IF probe.pc = "subscribing" THEN "wait_retained"
                                     ELSE "wait_lwt"]
    /\ ProbeOnly

\* A subscribe raises: the outer except returns False.
ProbeSubscribeFails ==
    /\ probe.pc \in {"subscribing", "subscribing_lwt"}
    /\ ProbeReturns("not_found")
    /\ ProbeOnly

\* The wait the probe is in for which a message on tp counts.
QualifiesAt(pc, tp) ==
    CASE pc \in {"wait_retained", "wait_active"} -> tp # "ping"
      [] pc = "wait_lwt" -> tp = "status"
      [] OTHER -> FALSE

\* The transport delivers a message on {id}/tp to on_message_received and, on
\* {id}/status, to lwt_callback.
ProbeMessage(tp) ==
    /\ probe.pc \notin {"idle", "start", "done"}
    /\ probe.nmsg < MaxProbeMsgs
    /\ probe' = [probe EXCEPT
                   !.nmsg = @ + 1,
                   !.topic_found = @ \/ ("wildcard" \in probe.subs /\ tp # "ping"),
                   !.lwt_found = @ \/ ("lwt" \in probe.subs /\ tp = "status"),
                   !.seen = IF QualifiesAt(probe.pc, tp) THEN @ \cup {probe.pc} ELSE @]
    /\ ProbeOnly

\* asyncio.wait_for(topic_found.wait(), ...) returns: the probe returns True.
ProbeFound ==
    /\ probe.pc \in {"wait_retained", "wait_active"}
    /\ probe.topic_found
    /\ ProbeReturns("found")
    /\ ProbeOnly

\* A wait times out: the next wait, the subscribe to {id}/status, or, after the last
\* wait, lwt_unsubscribe() in the finally clause and return False.
ProbeTimeout ==
    /\ \/ probe.pc \in {"wait_retained", "wait_active"} /\ ~probe.topic_found
       \/ probe.pc = "wait_lwt" /\ ~probe.lwt_found
    /\ CASE probe.pc = "wait_retained" -> probe' = [probe EXCEPT !.pc = "wait_active"]
         [] probe.pc = "wait_active" ->
               probe' = [probe EXCEPT !.pc = "subscribing_lwt", !.subs = @ \cup {"lwt"}]
         [] probe.pc = "wait_lwt" -> ProbeReturns("not_found")
    /\ ProbeOnly

\* asyncio.wait_for(lwt_found.wait(), ...) returns: lwt_unsubscribe(), return True,
\* and lwt_unsubscribe() again in the finally clause; when that raises, the outer
\* except returns False.
ProbeLwtFound ==
    /\ probe.pc = "wait_lwt"
    /\ probe.lwt_found
    /\ ProbeReturns(IF probe.again = "raises" THEN "not_found" ELSE "found")
    /\ ProbeOnly

\* The steps the probe itself takes.
ProbeStep ==
    \/ ProbeStart
    \/ ProbeSubscribed
    \/ ProbeFound
    \/ ProbeTimeout
    \/ ProbeLwtFound

ProbeNext ==
    \/ ProbeStep
    \/ ProbeSubscribeFails
    \/ \E tp \in ProbeTopics : ProbeMessage(tp)

\* Every subscribe is answered and every wait returns or times out.
ProbeSpec == ProbeInit /\ [][ProbeNext]_vars /\ WF_vars(ProbeStep)

(***************************************************************************)
(* Properties of the availability protocol                                 *)
(***************************************************************************)
ConnStep == nmsgs' = nmsgs + 1
NewTasks == SubSeq(runq', Len(runq) + 1, Len(runq'))

\* C1: whenever processing a connectivity message changes the manager's flag,
\* exactly one on_availability_changed(new flag) task is created for every entity
\* of the registration list and none for any other entity; nothing else is created.
C1_FanOutOncePerRegistered ==
    [][(ConnStep /\ mgrAvailable' # mgrAvailable) =>
         /\ Len(runq') >= Len(runq)
         /\ SubSeq(runq', 1, Len(runq)) = runq
         /\ susp' = susp
         /\ Len(NewTasks) = Len(mgrEntities)
         /\ \A e \in Kinds :
              Cardinality({i \in DOMAIN NewTasks :
                             /\ NewTasks[i].e = e
                             /\ NewTasks[i].kind = "avail"
                             /\ NewTasks[i].v = mgrAvailable'})
                = IF e \in Range(mgrEntities) THEN 1 ELSE 0]_vars

\* A transition was just fanned out while one entity is registered and the other
\* has already left the list.
C1_Witness ==
    /\ nmsgs > 0
    /\ Len(mgrEntities) = 1
    /\ \E e \in roster : ent[e].life = "removed"
    /\ Len(runq) = 1
    /\ runq[1].id = <<nmsgs, mgrEntities[1]>>

\* C2: a connectivity message carrying the same sentinel as the message before it
\* changes neither the manager's flag nor any entity, and creates no task.
C2_RepeatedSentinelIsNoOp ==
    [][(ConnStep /\ lastPayload \in {CONNECTED_ONLINE, CONNECTED_OFFLINE}
                 /\ lastPayload' = lastPayload) =>
         /\ mgrAvailable' = mgrAvailable
         /\ ent' = ent
         /\ runq' = runq
         /\ susp' = susp]_vars

\* C3: a connectivity message whose payload is neither sentinel changes nothing.
C3_OtherPayloadIgnored ==
    [][(ConnStep /\ lastPayload' \notin {CONNECTED_ONLINE, CONNECTED_OFFLINE}) =>
         /\ mgrAvailable' = mgrAvailable
         /\ ent' = ent
         /\ runq' = runq
         /\ susp' = susp]_vars

\* C4: the initialisation at the end of setup() never overwrites a transition the
\* connectivity callback has already computed.
C4_InitNeverOverwrites ==
    [][(phase = "subscribing" /\ phase' = "running") => mgrAvailable' = mgrAvailable]_vars

\* C5: whenever no availability-changed task is pending or in flight, every
\* registered entity's flag equals the manager's flag.
C5_QuiescentFlagsAgree ==
    (runq = <<>> /\ susp = {}) =>
        \A e \in Range(mgrEntities) : ent[e].available = mgrAvailable

\* C6: registering an entity appends it to the registration list and sets its flag
\* to the manager's flag; no task is created and no other entity changes.
C6_RegisterPrimesWithoutFanOut ==
    [][\A e \in Kinds :
         (ent[e].life = "none" /\ ent'[e].life # "none") =>
            /\ mgrEntities' = Append(mgrEntities, e)
            /\ ent'[e].available = mgrAvailable
            /\ runq' = runq
            /\ susp' = susp
            /\ mgrAvailable' = mgrAvailable
            /\ \A o \in Kinds \ {e} : ent'[o] = ent[o]]_vars

\* Both entities of the configuration have registered.
C6_Witness ==
    /\ Len(mgrEntities) = 2
    /\ \A e \in Range(mgrEntities) :
         ent[e].life = "constructed" /\ ent[e].available = mgrAvailable

Pending(e) ==
    \/ \E i \in DOMAIN runq : runq[i].e = e
    \/ \E t \in susp : t.e = e

\* C7: whatever happens to the mode selector's handlers (they may fail, or stay
\* suspended in a subscribe forever), every availability-changed task of the switch
\* runs to its end, and the connectivity callback is never blocked from taking the
\* next message.
C7_HandlersIndependent ==
    /\ Pending("switch") ~> ~Pending("switch")
    /\ []((phase \in {"subscribing", "running"} /\ nmsgs < MaxMsgs)
            => ENABLED (\E p \in ConnPayloads : AvailabilityReceived(p)))

\* The switch's handler of a transition has finished while the mode selector's
\* handler of the same transition is still suspended in its subscribe.
C7_Witness ==
    /\ done.e = "switch" /\ done.outcome = "ok" /\ done.v
    /\ ~Pending("switch")
    /\ mgrEntities = <<"mode_select", "switch">>
    /\ \E t \in susp : t.e = "mode_select" /\ t.kind = "avail" /\ t.id[1] = nmsgs

WriteSteps == {"write", "write_dropped"}

\* The steps of a completed on_availability_changed(True) before its state write.
OnlineSteps(e) ==
    <<"set_available">> \o
    [i \in 1..(2 * Len(SubTopics(e))) |-> IF i % 2 = 1 THEN "subscribe" ELSE "record"]

OfflineSteps == <<"set_available", "unsubscribe", "reset">>

CommandStep == nev' = nev + 1 /\ lastEv'.kind = "cmd"

\* C9: a command called while the entity's availability flag is false is a no-op:
\* it publishes nothing, leaves no publish pending, creates no task, and the
\* displayed state is unchanged.  This holds for every command of every class.
C9_CommandWhileUnavailableIsNoOp ==
    [][(CommandStep /\ ~ent[feature.e].available)
         => /\ published' = published
            /\ calls' = calls
            /\ runq' = runq
            /\ ent' = ent]_vars

\* The entity was online, went offline (display reset), and a command with valid
\* arguments was then called on it.
C9_Witness ==
    /\ lastEv.kind = "cmd"
    /\ lastEv.name \in {"set_hvac_mode", "select_option", "turn_on", "set_native_value"}
    /\ lastEv.arg \in {"cool", "Kholod", "", "22"}
    /\ ~lastEv.before.available
    /\ done.outcome = "ok" /\ ~done.v
    /\ published = <<>> /\ calls = <<>>

\* The climate entity was available with fan speed auto in a mode other than
\* fan-only, no command was in flight, and the latest event is the inbound mode
\* message "5"; the entity has been available ever since.
FanAutoTrigger ==
    /\ lastEv.kind = "in" /\ lastEv.name = "mode_out" /\ lastEv.arg = "5"
    /\ lastEv.before.available
    /\ lastEv.before.d.fan_mode = "auto"
    /\ lastEv.before.d.hvac_mode # "fan_only"
    /\ lastEv.inflight = 0
    /\ ent["climate"].available
    /\ ent["climate"].offlines = lastEv.before.offlines

\* The latest message published is "1" on fan_speed_in and the fan speed shows low.
FanCorrected ==
    /\ published # <<>>
    /\ published[Len(published)] = <<"fan_speed_in", "1">>
    /\ ent["climate"].d.fan_mode = "low"

\* C10: when the inbound mode message "5" reaches the available climate entity
\* showing fan speed auto and a mode other than fan-only, the displayed mode becomes
\* fan-only in that step; and unless another message or command arrives or the
\* entity becomes unavailable, eventually "1" is published on fan_speed_in and the
\* displayed fan speed is low.
C10_FanAutoCorrected ==
    /\ [][(nev' = nev + 1 /\ FanAutoTrigger')
            => ent'["climate"].d.hvac_mode = "fan_only"]_vars
    /\ FanAutoTrigger ~> (FanCorrected \/ ~FanAutoTrigger)

\* The correction has run after such a message, from a mode other than off.
C10_Witness ==
    /\ FanAutoTrigger
    /\ FanCorrected
    /\ lastEv.before.d.hvac_mode = "cool"
    /\ ent["climate"].d.hvac_mode = "fan_only"
    /\ ~ent["climate"].d.need_fan_auto_correction

\* The messages published since the latest event.
PublishedSince == SubSeq(published, lastEv.pubs + 1, Len(published))

IsPrefix(p, q) == Len(p) <= Len(q) /\ SubSeq(q, 1, Len(p)) = p

\* The latest event is set_hvac_mode(fan_only), called with nothing else in flight on
\* the available climate entity showing fan speed auto and a mode other than fan-only.
EnterFanOnlyCalled ==
    /\ lastEv.kind = "cmd" /\ lastEv.name = "set_hvac_mode" /\ lastEv.arg = "fan_only"
    /\ lastEv.before.available
    /\ lastEv.before.d.fan_mode = "auto"
    /\ lastEv.before.d.hvac_mode # "fan_only"
    /\ lastEv.inflight = 0

EnterFanOnlyDone ==
    /\ PublishedSince = << <<"fan_speed_in", "1">>, <<"mode_in", "5">> >>
    /\ ent["climate"].d.hvac_mode = "fan_only"
    /\ ent["climate"].d.fan_mode = "low"

\* C11: after set_hvac_mode(fan_only) on the available climate entity showing fan
\* speed auto and another mode, what is published is "1" on fan_speed_in first and
\* "5" on mode_in second; once the call has ended both are out and the display
\* shows mode fan-only and fan speed low; and the call does end unless another
\* message or command arrives first.
C11_FanLowBeforeFanOnly ==
    /\ [](EnterFanOnlyCalled =>
            /\ IsPrefix(PublishedSince, << <<"fan_speed_in", "1">>, <<"mode_in", "5">> >>)
            /\ (calls = <<>> => EnterFanOnlyDone))
    /\ EnterFanOnlyCalled ~> (EnterFanOnlyDone \/ ~EnterFanOnlyCalled)

\* The call has ended, entering fan-only from cool.
C11_Witness ==
    /\ EnterFanOnlyCalled
    /\ EnterFanOnlyDone
    /\ calls = <<>>
    /\ lastEv.before.d.hvac_mode = "cool"

\* The latest event is the inbound fan-speed message "0", delivered to the available
\* climate entity while its correction flag was set and no publish was in flight.
AutoWhileCorrectionPending ==
    /\ lastEv.kind = "in" /\ lastEv.name = "fan_speed_out" /\ lastEv.arg = "0"
    /\ lastEv.before.available
    /\ lastEv.before.d.need_fan_auto_correction
    /\ lastEv.before.d.hvac_mode = "fan_only"
    /\ lastEv.inflight = 0

C13_AutoRejectedInFanOnly ==
    [][(CommandStep /\ lastEv'.name = "set_fan_mode" /\ lastEv'.arg = "auto"
          /\ ent["climate"].available /\ ent["climate"].d.hvac_mode = "fan_only")
         => /\ published' = published
            /\ calls' = calls
            /\ ent' = ent]_vars

\* set_fan_mode(auto) was called in fan-only mode with fan speed low, and nothing
\* has been published since.
C13_Witness ==
    /\ lastEv.kind = "cmd" /\ lastEv.name = "set_fan_mode" /\ lastEv.arg = "auto"
    /\ lastEv.before.available
    /\ lastEv.before.d.hvac_mode = "fan_only"
    /\ lastEv.before.d.fan_mode = "low"
    /\ ent["climate"].d.fan_mode = "low"
    /\ PublishedSince = <<>>

\* The option set the claim gives for a displayed mode.
ModeDependentFanModes(hvac_mode) ==
    IF hvac_mode = "fan_only" THEN {"low", "medium", "high"}
    ELSE {"auto", "low", "medium", "high"}

\* C14 as stated: in every reachable state the climate entity's fan-speed option set
\* is {low, medium, high} when the displayed mode is fan-only and
\* {auto, low, medium, high} otherwise.
C14_FanModesByModeAlways ==
    FanModes(ent["climate"]) = ModeDependentFanModes(ent["climate"].d.hvac_mode)

\* C14 amended: while the availability flag is true the option set is
\* {low, medium, high} in fan-only mode and {auto, low, medium, high} otherwise;
\* while the flag is false the option set is empty.
C14_FanModesByModeWhileAvailable ==
    FanModes(ent["climate"]) =
        IF ent["climate"].available
        THEN ModeDependentFanModes(ent["climate"].d.hvac_mode)
        ELSE {}

\* Available in fan-only mode after the correction, and unavailable in fan-only mode
\* are both reached; this is the former.
C14_Witness ==
    /\ ent["climate"].available
    /\ ent["climate"].d.hvac_mode = "fan_only"
    /\ ent["climate"].d.fan_mode = "low"
    /\ "auto" \notin FanModes(ent["climate"])

\* The derived action the claim assigns to a displayed mode.
ActionOfMode(hvac_mode) ==
    CASE hvac_mode = "off" -> "off"
      [] hvac_mode = "cool" -> "cooling"
      [] hvac_mode = "heat" -> "heating"
      [] hvac_mode = "fan_only" -> "fan"
      [] OTHER -> "idle"

\* C15: in every reachable state of the climate entity the derived action is the
\* fixed function of the displayed mode (off -> off, cool -> cooling, heat -> heating,
\* fan-only -> fan, auto or dry -> idle).
C15_ActionFollowsMode ==
    ent["climate"].d.hvac_action = ActionOfMode(ent["climate"].d.hvac_mode)

\* The latest event is set_temperature, called on the available climate entity with
\* nothing else in flight.
SetTemperatureCalled ==
    /\ lastEv.kind = "cmd" /\ lastEv.name = "set_temperature"
    /\ lastEv.before.available
    /\ lastEv.inflight = 0

\* Whole degrees n (of [16, 30]) are the request clamped to [16, 30] and rounded: no
\* more than half a degree from the clamped request.
ClampedAndRounded(n, text) ==
    LET request == ParseFloat(text)[1]
        clamped == IF request < Deg(TEMP_MIN) THEN Deg(TEMP_MIN)
                   ELSE IF request > Deg(TEMP_MAX) THEN Deg(TEMP_MAX) ELSE request
    IN  /\ n \in TEMP_MIN..TEMP_MAX
        /\ Deg(n) - clamped \in {-1, 0, 1}

\* C16: set_temperature on the available climate entity publishes one message, on
\* temp_comfort_in, whose payload is the request clamped to [16, 30] and rounded to
\* an integer; once it is published and the call has ended, the displayed target
\* temperature equals the published value (request 35: "30" and 30).
C16_SetTemperatureClampsAndRounds ==
    SetTemperatureCalled =>
        /\ Len(PublishedSince) <= 1
        /\ PublishedSince = <<>> => calls # <<>> \/ nfaults > 0
        /\ PublishedSince # <<>> =>
             /\ PublishedSince[1][1] = "temp_comfort_in"
             /\ \E n \in TEMP_MIN..TEMP_MAX :
                   /\ Str(n) = PublishedSince[1][2]
                   /\ ClampedAndRounded(n, lastEv.arg)
                   /\ ent["climate"].d.target_temperature = Some(Deg(n))
             /\ calls = <<>>
             /\ lastEv.arg = "35" =>
                   /\ PublishedSince[1][2] = "30"
                   /\ ent["climate"].d.target_temperature = Some(Deg(30))

\* Request 35 was published as "30" and is displayed as 30.
C16_Witness ==
    /\ SetTemperatureCalled
    /\ lastEv.arg = "35"
    /\ PublishedSince = << <<"temp_comfort_in", "30">> >>
    /\ ent["climate"].d.target_temperature = Some(Deg(30))

\* C17: in every reachable state the climate entity's displayed target temperature
\* is a whole number of degrees in [16, 30], whatever temperature_comfort/out messages
\* and set_temperature commands have been processed.
C17_TargetTemperatureIsIntegerInRange ==
    \E n \in TEMP_MIN..TEMP_MAX :
        ent["climate"].d.target_temperature = Some(Deg(n))

\* C18: in every reachable state in which the climate entity, or a temperature
\* sensor, has its availability flag false, its displayed current temperature is
\* unknown: a value shown before an offline transition is not visible after it.
C18_UnavailableShowsNoTemperature ==
    /\ ~ent["climate"].available => ent["climate"].d.current_temperature = None
    /\ \A e \in {"sensor_current", "sensor_target"} :
          ~ent[e].available => ent[e].d.native_value = None

\* The entity went offline after an inbound message had given it a temperature.
C18_Witness ==
    /\ lastEv.kind = "in" /\ lastEv.name = "temp_out"
    /\ lastEv.before.available
    /\ ParseFloat(lastEv.arg) # None
    /\ feature.e = "climate"
    /\ ent["climate"].offlines > lastEv.before.offlines
    /\ ~ent["climate"].available
    /\ ent["climate"].d.current_temperature = None

\* The quiescent default of the discrete state entity e displays: mode off, fan speed
\* auto, louvre off.
ShowsQuiescentDefault(e, d) ==
    CASE e = "climate" ->
            d.hvac_mode = "off" /\ d.fan_mode = "auto" /\ d.swing_mode = "off"
      [] e = "mode_select" -> d.current_option = MODE_MAPPING["0"][2]
      [] e = "fan_select" -> d.current_option = FAN_SPEEDS["0"][2]
      [] e = "switch" -> d.state = FALSE
      [] OTHER -> TRUE

\* C19: when an entity's transition to unavailable completes, the discrete state it
\* displays is the quiescent default (mode off, fan speed auto, louvre off), for the
\* mode selector, the fan-speed selector, the louvre switch and the climate entity.
C19_OfflineShowsQuiescentDefault ==
    [][\A e \in Kinds :
          ent'[e].offlines > ent[e].offlines => ShowsQuiescentDefault(e, ent'[e].d)]_vars

\* The latest event is an inbound payload that is not a number, delivered to a
\* temperature sensor whose availability flag was true.
MalformedReading ==
    /\ feature.e \in {"sensor_current", "sensor_target"}
    /\ lastEv.kind = "in"
    /\ lastEv.before.available
    /\ ParseFloat(lastEv.arg) = None

\* C20: when an available temperature sensor receives a payload that does not parse
\* as a number, its displayed value becomes unknown and a state write is attempted;
\* the handler returns normally.
C20_MalformedReadingShowsUnknown ==
    [][(nev' = nev + 1 /\ MalformedReading') =>
          /\ ent'[feature.e].d.native_value = None
          /\ lastEv'.wrote >= 1]_vars

\* A sensor that displayed a reading received "abc" and displays unknown.
C20_Witness ==
    /\ MalformedReading
    /\ lastEv.arg = "abc"
    /\ lastEv.before.d.native_value # None
    /\ lastEv.wrote >= 1
    /\ ent[feature.e].d.native_value = None

\* The wire codes the tables of const.py know for the inbound topic tp.
RecognisedCodes(tp) ==
    CASE tp = "mode_out" -> DOMAIN MODE_MAPPING
      [] tp = "fan_speed_out" -> DOMAIN FAN_SPEEDS
      [] tp = "backlight_out" -> {BLINDS_ON, BLINDS_OFF}
      [] OTHER -> {}

\* The latest event is a payload that is no wire code, delivered on a mode, fan-speed
\* or louvre topic to an entity whose availability flag was true.
UnrecognisedCode ==
    /\ lastEv.kind = "in"
    /\ lastEv.name \in {"mode_out", "fan_speed_out", "backlight_out"}
    /\ lastEv.before.available
    /\ lastEv.arg \notin RecognisedCodes(lastEv.name)

\* C21: when an available mode selector, fan-speed selector, louvre switch or climate
\* entity receives a payload that is no recognised wire code, everything it displays
\* stays as it was before the message; the handler returns normally.
C21_UnrecognisedCodeKeepsValue ==
    [][(nev' = nev + 1 /\ UnrecognisedCode') =>
          ent'[feature.e].d = lastEv'.before.d]_vars

\* The louvre switch showed on, received "9" and still shows on.
C21_Witness ==
    /\ UnrecognisedCode
    /\ feature.e = "switch"
    /\ lastEv.before.d.state = TRUE
    /\ ent["switch"].d.state = TRUE

\* The value arg of command op is outside the legal value set of entity e, whose
\* display was d: a label with no wire code, a number that rounds outside [16, 30],
\* a climate mode, fan speed or louvre value that is not among the current options.
IllegalValue(e, op, arg, d) ==
    CASE op = "select_option" /\ e = "mode_select" ->
            arg \notin {MODE_MAPPING[c][2] : c \in DOMAIN MODE_MAPPING}
      [] op = "select_option" /\ e = "fan_select" ->
            arg \notin {FAN_SPEEDS[c][2] : c \in DOMAIN FAN_SPEEDS}
      [] op = "set_native_value" ->
            \A n \in TEMP_MIN..TEMP_MAX : RoundHalfEven(ParseFloat(arg)[1]) # n
      [] op = "set_hvac_mode" -> arg \notin {MODE_MAPPING[c][1] : c \in DOMAIN MODE_MAPPING}
      [] op = "set_fan_mode" -> arg \notin ModeDependentFanModes(d.hvac_mode)
      [] op = "set_swing_mode" -> arg \notin {SWING_MODES[c][1] : c \in DOMAIN SWING_MODES}
      [] OTHER -> FALSE

\* The latest event is a command whose value is outside the legal value set.
IllegalCommand ==
    /\ lastEv.kind = "cmd"
    /\ IllegalValue(feature.e, lastEv.name, lastEv.arg, lastEv.before.d)

\* C22: a command whose value is outside the entity's legal value set is dropped: the
\* call ends without suspending at a publish, nothing is published and the entity is
\* unchanged.
C22_IllegalCommandDropped ==
    [][(nev' = nev + 1 /\ IllegalCommand') =>
          /\ calls' = calls
          /\ published' = published
          /\ ent' = ent]_vars

\* The available number entity was asked for 35 degrees and still shows what it did.
C22_Witness ==
    /\ IllegalCommand
    /\ lastEv.before.available
    /\ lastEv.name = "set_native_value" /\ lastEv.arg = "35"
    /\ lastEv.inflight = 0 /\ calls = <<>>
    /\ ent["number"].d = lastEv.before.d

\* The value arg of command op is in the legal value set of entity e, whose display
\* was d; a legal temperature is a whole number of degrees in [16, 30].
LegalValue(e, op, arg, d) ==
    CASE op \in {"set_temperature", "set_native_value"} ->
            \E n \in TEMP_MIN..TEMP_MAX : ParseFloat(arg) = Some(Deg(n))
      [] op \in {"turn_on", "turn_off"} -> TRUE
      [] OTHER -> ~IllegalValue(e, op, arg, d)

\* The code of table whose entry has value v at position i.
CodeOf(table, i, v) == CHOOSE c \in DOMAIN table : table[c][i] = v

\* The command topic and the wire code of the requested value, by const.py's tables.
WireMessage(e, op, arg) ==
    CASE op = "select_option" /\ e = "mode_select" -> <<"mode_in", CodeOf(MODE_MAPPING, 2, arg)>>
      [] op = "select_option" /\ e = "fan_select" ->
            <<"fan_speed_in", CodeOf(FAN_SPEEDS, 2, arg)>>
      [] op = "set_hvac_mode" -> <<"mode_in", CodeOf(MODE_MAPPING, 1, arg)>>
      [] op = "set_fan_mode" -> <<"fan_speed_in", CodeOf(FAN_SPEEDS, 1, arg)>>
      [] op = "set_swing_mode" -> <<"backlight_in", CodeOf(SWING_MODES, 1, arg)>>
      [] op \in {"set_temperature", "set_native_value"} -> <<"temp_comfort_in", arg>>
      [] op = "turn_on" -> <<"backlight_in", BLINDS_ON>>
      [] op = "turn_off" -> <<"backlight_in", BLINDS_OFF>>

\* Display d shows the value requested by command op with arg.
ShowsRequested(op, arg, d) ==
    CASE op = "select_option" -> d.current_option = arg
      [] op = "set_hvac_mode" -> d.hvac_mode = arg
      [] op = "set_fan_mode" -> d.fan_mode = arg
      [] op = "set_swing_mode" -> d.swing_mode = arg
      [] op = "set_temperature" -> d.target_temperature = ParseFloat(arg)
      [] op = "set_native_value" -> d.native_value = ParseFloat(arg)
      [] op = "turn_on" -> d.state = TRUE
      [] op = "turn_off" -> d.state = FALSE

\* The latest event is a command with a legal value, called on an available entity
\* with no other call in flight and no fan-speed correction pending.
ValidCommandCalled ==
    /\ lastEv.kind = "cmd"
    /\ lastEv.before.available
    /\ lastEv.inflight = 0
    /\ feature.e = "climate" => ~lastEv.before.d.need_fan_auto_correction
    /\ LegalValue(feature.e, lastEv.name, lastEv.arg, lastEv.before.d)

\* The command is set_hvac_mode(fan_only), called in another mode with fan speed auto.
EntersFanOnlyWithAuto ==
    /\ lastEv.name = "set_hvac_mode" /\ lastEv.arg = "fan_only"
    /\ lastEv.before.d.hvac_mode # "fan_only"
    /\ lastEv.before.d.fan_mode = "auto"

\* The entity has not gone offline since the latest event.
NoOfflineSince == ent[feature.e].offlines = lastEv.before.offlines

\* What the valid command has done so far: at most the one message with the wire code
\* of the requested value on the command topic; nothing published and the display
\* untouched while the publish is awaited; the requested value on display once the
\* message is published, with no inbound message in between.
PublishesOnceThenShows ==
    LET msg == WireMessage(feature.e, lastEv.name, lastEv.arg)
    IN  /\ IsPrefix(PublishedSince, <<msg>>)
        /\ calls # <<>> => PublishedSince = <<>>
        /\ (calls # <<>> /\ NoOfflineSince) => ent[feature.e].d = lastEv.before.d
        /\ (calls = <<>> /\ nfaults = 0) => PublishedSince = <<msg>>
        /\ (PublishedSince # <<>> /\ NoOfflineSince) =>
              ShowsRequested(lastEv.name, lastEv.arg, ent[feature.e].d)

\* C23 as stated: every valid command on an available entity publishes exactly one
\* message, the wire code of the requested value on the entity's command topic, and
\* sets the displayed state to the requested value only after the publish completes,
\* without waiting for an inbound echo.
C23_ValidCommandPublishesOnce == ValidCommandCalled => PublishesOnceThenShows

\* C23 amended: the same, for every valid command except set_hvac_mode(fan_only)
\* called in another mode with fan speed auto (which first publishes fan speed low).
C23_ValidCommandPublishesOnceUnlessEnteringFanOnly ==
    (ValidCommandCalled /\ ~EntersFanOnlyWithAuto) => PublishesOnceThenShows

\* The louvre switch showed off, turn_on published "1" and the switch shows on.
C23_Witness ==
    /\ ValidCommandCalled
    /\ lastEv.name = "turn_on"
    /\ lastEv.before.d.state = FALSE
    /\ PublishedSince = << <<"backlight_in", BLINDS_ON>> >>
    /\ calls = <<>>
    /\ ent["switch"].d.state = TRUE

\* A publish awaited by a command raises in this step.
PublishFailsStep == nfaults' = nfaults + 1 /\ calls' # calls

\* C24: when the transport fails to publish during a command of any entity, the
\* exception reaches the caller: the command ends there, without the assignments and
\* the state write of a normal completion, and never returns normally.
C24_PublishFailureReachesCaller ==
    /\ [](lastFailure.kind # "none" => lastFailure.outcome = "raised")
    /\ [][PublishFailsStep =>
             /\ Len(calls') = Len(calls) - 1
             /\ lastFailure'.outcome = "raised"
             /\ published' = published
             /\ ent' = ent]_vars

\* The number entity's set_native_value(22) ended with the publish's exception: no
\* message is out and the displayed value is the one from before the call.
C24_Witness ==
    /\ lastFailure = [kind |-> "cmd", e |-> "number", outcome |-> "raised"]
    /\ lastEv.kind = "cmd" /\ lastEv.name = "set_native_value" /\ lastEv.arg = "22"
    /\ lastEv.before.available /\ lastEv.inflight = 0
    /\ calls = <<>>
    /\ PublishedSince = <<>>
    /\ ent["number"].d = lastEv.before.d

\* Entity e holds no subscription and is out of the manager's registration set.
TornDown(e) ==
    /\ ent[e].subs = <<>>
    /\ \A tp \in Topics : active[e][tp] = 0
    /\ e \notin Range(mgrEntities)

\* C25: after unload has completed every entity has cancelled all its subscriptions
\* and left the registration set, and the manager's subscription to the connectivity
\* topic is cancelled: no later connectivity message is processed.
C25_UnloadTearsEverythingDown ==
    /\ [](phase = "unloaded" => (\A e \in roster : TornDown(e)) /\ ~MgrSubscribed)
    /\ [][phase = "unloaded" => nmsgs' = nmsgs /\ mgrAvailable' = mgrAvailable]_vars

\* A call of on_availability_changed reaches its end, and its state write, in this
\* step.
HandlerEnds == done' # done /\ done'.outcome = "ok"

\* C26: the readiness flag is true exactly from the entity's addition to the host to
\* its removal; the state write at the end of on_availability_changed reaches the
\* host's state store exactly when the flag is true; while the flag is false the write
\* is dropped, the call still ends normally and the write changes no field.
C26_WritesOnlyWhileReady ==
    /\ [](\A e \in Kinds : ent[e].ready <=> ent[e].life = "added")
    /\ [][HandlerEnds =>
             LET e == done'.e
                 w == done'.log[Len(done'.log)]
             IN  /\ w \in WriteSteps
                 /\ w = "write" <=> ent[e].ready
                 /\ ent'[e].ready = ent[e].ready
                 /\ ~ent[e].ready => ent'[e].d = (IF done'.v THEN ent[e].d
                                                  ELSE ResetDisplay(e, ent[e].d))]_vars

\* An entity that is constructed but not yet added to the host has completed an
\* availability change: its write was dropped.
C26_Witness ==
    /\ done.outcome = "ok"
    /\ done.log[Len(done.log)] = "write_dropped"
    /\ ent[done.e].life = "constructed"
    /\ ~ent[done.e].ready

\* The wire codes of each table.
TableCodes(t) ==
    CASE t \in {"mode", "climate_mode", "mode_label"} -> {"0", "1", "2", "3", "4", "5"}
      [] t \in {"fan", "fan_label"} -> {"0", "1", "2", "3"}
      [] t = "swing" -> {"0", "1"}

\* C27: for every entry of the mode, fan-speed and louvre tables, encoding the domain
\* value gives a wire code that decodes to the value again, and decoding the wire code
\* gives a value that encodes to the code again; the codes of the tables are {0..5},
\* {0..3} and {0, 1}, and each lookup of an entry finds a counterpart.
C27_TablesRoundTrip ==
    /\ conv.table \in ConvTables =>
          /\ DOMAIN Decoder(conv.table) = TableCodes(conv.table)
          /\ Range(Encoder(conv.table)) = TableCodes(conv.table)
    /\ conv.steps >= 1 =>
          /\ conv.value # None
          /\ conv.steps = 1 /\ conv.first = "encode" => conv.value[1] \in TableCodes(conv.table)
    /\ conv.steps = 2 => conv.value = Some(conv.input)

\* fan_only was encoded as "5", which was decoded as fan_only.
C27_Witness ==
    /\ conv.table = "mode" /\ conv.first = "encode" /\ conv.input = "fan_only"
    /\ conv.steps = 2
    /\ conv.value = Some("fan_only")

\* C28: the topic-existence probe always terminates; it returns "device present" when
\* a qualifying message is observed during one of its bounded waits, "not found" when
\* no message ever arrives, and it never publishes.
C28_ProbeTerminatesWithVerdict ==
    /\ <>(probe.pc = "done")
    /\ [](probe.pc = "done" =>
             /\ probe.result \in {"found", "not_found"}
             /\ probe.seen # {} => probe.result = "found"
             /\ probe.nmsg = 0 => probe.result = "not_found")
    /\ [](published = <<>> /\ calls = <<>>)

\* The event loop starts on_availability_changed(v) for an entity whose availability
\* flag already is v.
SameValueCall ==
    /\ runq # <<>>
    /\ runq' = Tail(runq)
    /\ Head(runq).kind = "avail"
    /\ ent[Head(runq).e].available = Head(runq).v

\* C29: on_availability_changed(v) called with v equal to the entity's availability
\* flag is a no-op: flag, recorded handles and displayed state are unchanged, nothing
\* is subscribed or unsubscribed, nothing is reset and the call does not suspend.
C29_SameValueIsNoOp ==
    [][SameValueCall =>
          /\ ent' = ent
          /\ active' = active
          /\ susp' = susp
          /\ done'.e = Head(runq).e /\ done'.log = <<>>]_vars

\* A call with the flag's own value has returned at once.
C29_Witness ==
    /\ done.outcome = "noop"
    /\ done.log = <<>>
    /\ ent[done.e].available = done.v
    /\ ent[done.e].life = "added"

\* The number of handles recorded for the topic tp.
Recorded(handles, tp) == Cardinality({i \in 1..Len(handles) : handles[i] = tp})

\* A step in which _unsubscribe_mqtt runs for the entity e: an effective
\* on_availability_changed(False), or the removal of the entity.
TeardownStep(e) ==
    \/ /\ runq # <<>>
       /\ runq' = Tail(runq)
       /\ Head(runq).kind = "avail"
       /\ Head(runq).e = e
       /\ ~Head(runq).v
       /\ ent[e].available
    \/ /\ ent[e].life = "added"
       /\ ent'[e].life = "removed"

\* C30: the teardown cancels every recorded subscription handle exactly once (the
\* subscriptions of each topic drop by the number of handles recorded for it) and
\* leaves the record empty; the teardown called again at once changes neither the
\* record nor the subscriptions, so no handle is cancelled a second time.
C30_TeardownCancelsEachHandleOnce ==
    [][\A e \in Kinds :
          TeardownStep(e) =>
              /\ ent'[e].subs = <<>>
              /\ \A tp \in Topics :
                    active'[e][tp] = active[e][tp] - Recorded(ent[e].subs, tp)
              /\ LET again == UnsubscribeMqtt([s |-> ent'[e], act |-> active'[e],
                                               log |-> <<>>])
                 IN  /\ again.s = ent'[e]
                     /\ again.act = active'[e]]_vars

\* An effective on_availability_changed(False) has completed for an entity whose
\* subscribe tasks had all run to their end without a fault, so that its handles were
\* recorded: the record is empty and none of its subscriptions is left.
C30_Witness ==
    /\ done.outcome = "ok"
    /\ ~done.v
    /\ Len(done.log) >= 2
    /\ done.log[2] = "unsubscribe"
    /\ ent[done.e].life = "added"
    /\ ent[done.e].subs = <<>>
    /\ \A tp \in Topics : active[done.e][tp] = 0
    /\ nfaults = 0
    /\ \A t \in susp : t.e # done.e

\* A step in which async_will_remove_from_hass calls remove_entity for the entity e.
DeregisterStep(e) ==
    /\ ent[e].life = "added"
    /\ ent'[e].life = "removed"

Without(entities, e) == SelectSeq(entities, LAMBDA x : x # e)

\* C31: remove_entity leaves the registrations without the entity and with every
\* other registration unchanged and in place; called for an entity that is not
\* registered, as when it is called a second time at once, it changes nothing.
C31_DeregisterRemovesOnlyThatEntity ==
    [][\A e \in Kinds :
          DeregisterStep(e) =>
              /\ e \notin Range(mgrEntities')
              /\ mgrEntities' = Without(mgrEntities, e)
              /\ RemoveEntity(mgrEntities', e) = mgrEntities'
              /\ \A x \in Kinds \ Range(mgrEntities') :
                    RemoveEntity(mgrEntities', x) = mgrEntities']_vars

\* An entity was deregistered while another one is still registered.
C31_Witness ==
    \E e \in Kinds :
        /\ ent[e].life = "removed"
        /\ e \notin Range(mgrEntities)
        /\ mgrEntities # <<>>

CorrectionFlag == ent["climate"].d.need_fan_auto_correction

\* The latest event is an inbound fan-speed message of low, medium or high.
FanUpdateNotAuto ==
    /\ lastEv.kind = "in" /\ lastEv.name = "fan_speed_out"
    /\ lastEv.arg \in {"1", "2", "3"}

\* A step in which the task at the head of the ready queue runs
\* _correct_fan_speed_for_mode.
CorrectionRuns ==
    /\ runq # <<>>
    /\ Head(runq).kind = "correct"
    /\ runq' = Tail(runq)

\* A step in which the publish awaited by a correction completes and the correction
\* ends.
CorrectionApplied ==
    \E i \in DOMAIN calls :
        /\ calls[i].kind = "correct"
        /\ calls' = RemoveAt(calls, i)
        /\ Len(published') = Len(published) + 1

\* C32: the pending fan-auto-correction flag of the climate entity is false after
\* the correction has been applied (its publish completed, or it ran on the available
\* entity and found nothing to publish) and after every inbound fan-speed message of
\* low, medium or high; when such a message is the latest event the flag stays false,
\* and a deferred correction that runs then publishes nothing and changes nothing.
C32_CorrectionFlagCleared ==
    /\ [][CorrectionApplied => ~CorrectionFlag']_vars
    /\ [][(CorrectionRuns /\ ent["climate"].available /\ calls' = calls)
            => ~CorrectionFlag']_vars
    /\ [](FanUpdateNotAuto => ~CorrectionFlag)
    /\ [][(CorrectionRuns /\ FanUpdateNotAuto)
            => /\ calls' = calls
               /\ published' = published
               /\ ent' = ent]_vars

\* The flag was set and its correction deferred when the fan-speed message "1"
\* arrived; the correction has run since, and nothing was ever published.
C32_Witness ==
    /\ feature.e = "climate"
    /\ FanUpdateNotAuto
    /\ lastEv.arg = "1"
    /\ lastEv.before.available
    /\ lastEv.before.d.need_fan_auto_correction
    /\ lastEv.before.d.hvac_mode = "fan_only"
    /\ lastEv.inflight = 0
    /\ nfaults = 0
    /\ runq = <<>>
    /\ calls = <<>>
    /\ published = <<>>
    /\ ent["climate"].available
    /\ ent["climate"].d.fan_mode = "low"
    /\ ~CorrectionFlag

\* The action and the mode the specification gives for each recognised mode code.
ActionOfCode ==
    [c \in {"0", "1", "2", "3", "4", "5"} |->
        CASE c = "0" -> "off"
          [] c = "2" -> "cooling"
          [] c = "4" -> "heating"
          [] c = "5" -> "fan"
          [] OTHER -> "idle"]

ModeOfCode ==
    [c \in {"0", "1", "2", "3", "4", "5"} |->
        CASE c = "0" -> "off"
          [] c = "1" -> "auto"
          [] c = "2" -> "cool"
          [] c = "3" -> "dry"
          [] c = "4" -> "heat"
          [] OTHER -> "fan_only"]

\* A step in which an inbound mode message with a recognised code is delivered to
\* the available climate entity.
ModeMessageStep ==
    /\ feature.e = "climate"
    /\ nev' = nev + 1
    /\ lastEv'.kind = "in" /\ lastEv'.name = "mode_out"
    /\ lastEv'.arg \in DOMAIN ActionOfCode
    /\ ent["climate"].available

\* C33: after every inbound mode message with a recognised code processed by the
\* available climate entity, the derived action is the mapping of that code ("0" off,
\* "2" cooling, "4" heating, "5" fan, "1" and "3" idle) and the displayed mode is the
\* decoded code.
C33_ActionFollowsModeMessage ==
    [][ModeMessageStep =>
          /\ ent'["climate"].d.hvac_action = ActionOfCode[lastEv'.arg]
          /\ ent'["climate"].d.hvac_mode = ModeOfCode[lastEv'.arg]]_vars

\* The mode message "3" (dry) was processed after the display had shown another
\* action: the action is idle and the mode dry.
C33_Witness ==
    /\ feature.e = "climate"
    /\ lastEv.kind = "in" /\ lastEv.name = "mode_out" /\ lastEv.arg = "3"
    /\ lastEv.before.available
    /\ lastEv.before.d.hvac_action = "cooling"
    /\ ent["climate"].d.hvac_action = "idle"
    /\ ent["climate"].d.hvac_mode = "dry"

\* No task of the entity e is ready or suspended.
NothingInFlight(e) ==
    /\ \A i \in DOMAIN runq : runq[i].e # e
    /\ \A t \in susp : t.e # e

NoSubscription(e) ==
    /\ ent[e].subs = <<>>
    /\ \A tp \in Topics : active[e][tp] = 0

\* C34: whenever the availability flag of an entity is false and no handler of it is
\* in flight, the entity holds no recorded subscription handle and has no active
\* subscription on the transport.
C34_OfflineMeansNoSubscription ==
    \A e \in Kinds :
        (ent[e].life # "none" /\ ~ent[e].available /\ NothingInFlight(e))
            => NoSubscription(e)

\* C35: in every reachable state an entity has at most one active subscription for
\* each of its inbound topics.
C35_AtMostOneSubscriptionPerTopic ==
    \A e \in Kinds : \A tp \in Topics : active[e][tp] <= 1

\* C36: an entity that has been removed from the host holds no recorded subscription
\* handle and has no active subscription, in every state from its removal on.
C36_RemovedEntityNeverSubscribed ==
    \A e \in Kinds : ent[e].life = "removed" => NoSubscription(e)

\* C37: whenever the climate entity is available, shows mode fan-only and has no
\* fan-auto correction pending, the fan speed it shows is not auto.
C37_FanOnlyNeverShowsAuto ==
    (/\ feature.e = "climate"
     /\ ent["climate"].available
     /\ ent["climate"].d.hvac_mode = "fan_only"
     /\ ~ent["climate"].d.need_fan_auto_correction)
        => ent["climate"].d.fan_mode # "auto"

\* A step in which a command is called and goes on to publish "0" (auto) on
\* fan_speed_in.
PublishesFanAuto ==
    /\ nev' = nev + 1
    /\ lastEv'.kind = "cmd"
    /\ Len(calls') = Len(calls) + 1
    /\ LET plan == calls'[Len(calls')].plan
       IN  \E k \in DOMAIN plan :
              plan[k].topic = "fan_speed_in" /\ plan[k].payload = "0"

\* C38: no entity publishes the fan-speed code "0" (auto) on fan_speed_in while the
\* last mode reported by the device, the one the available climate entity shows, is
\* fan-only: the fan-speed selector's command is held to this like the climate
\* entity's.
C38_NoFanAutoInFanOnly ==
    [][(/\ ent["climate"].life = "added"
        /\ ent["climate"].available
        /\ ent["climate"].d.hvac_mode = "fan_only")
          => ~PublishesFanAuto]_vars

\* A step in which a publish of the latest command raises: the command was called on
\* the available entity with nothing else in flight and no correction pending, and
\* the entity has not gone offline since.
CommandFailsStep ==
    /\ PublishFailsStep
    /\ lastEv.kind = "cmd"
    /\ lastEv.before.available
    /\ lastEv.inflight = 0
    /\ Len(calls) = 1
    /\ calls[1].kind = "cmd"
    /\ NoOfflineSince
    /\ ("need_fan_auto_correction" \in DOMAIN lastEv.before.d
           => ~lastEv.before.d.need_fan_auto_correction)

\* The failed command is set_hvac_mode(fan_only) and its fan-speed publish had
\* completed before the mode publish raised.
FanSpeedAlreadySet ==
    /\ lastEv.name = "set_hvac_mode" /\ lastEv.arg = "fan_only"
    /\ PublishedSince = << <<"fan_speed_in", "1">> >>

\* C39 as stated: when a publish fails during a command, the displayed state after
\* the failed command is the displayed state from before the command.
C39_FailedCommandChangesNothing ==
    [][CommandFailsStep => ent'[feature.e].d = lastEv.before.d]_vars

\* C39: when a publish fails during a command, the displayed state after the failed
\* command is the one from before the command, except that set_hvac_mode(fan_only)
\* whose mode publish fails after its fan-speed publish has completed leaves the
\* displayed mode as it was and the displayed fan speed at low.
C39_FailedCommandKeepsCompletedPublishes ==
    [][CommandFailsStep =>
          ent'[feature.e].d = IF FanSpeedAlreadySet
                              THEN [lastEv.before.d EXCEPT !.fan_mode = "low"]
                              ELSE lastEv.before.d]_vars

\* set_hvac_mode(fan_only), called in mode cool with fan speed auto, has ended with
\* the exception of its mode publish: "1" is out on fan_speed_in, the display shows
\* mode cool and fan speed low.
C39_Witness ==
    /\ feature.e = "climate"
    /\ lastFailure = [kind |-> "cmd", e |-> "climate", outcome |-> "raised"]
    /\ lastEv.kind = "cmd" /\ lastEv.inflight = 0
    /\ FanSpeedAlreadySet
    /\ lastEv.before.available
    /\ lastEv.before.d.hvac_mode = "cool"
    /\ lastEv.before.d.fan_mode = "auto"
    /\ calls = <<>>
    /\ ent["climate"].d.hvac_mode = "cool"
    /\ ent["climate"].d.fan_mode = "low"

\* The text is a number that rounds to a whole degree outside [16, 30].
RoundsOutside(text) ==
    /\ ParseFloat(text) # None
    /\ \A n \in 16..30 : RoundHalfEven(ParseFloat(text)[1]) # n

\* A step that delivers an inbound message to the number entity, or calls its command,
\* with a value that rounds outside the range.
OutsideValueStep ==
    /\ feature.e = "number"
    /\ nev' = nev + 1
    /\ lastEv'.name \in {"temp_comfort_out", "set_native_value"}
    /\ RoundsOutside(lastEv'.arg)

\* C40: in every reachable state the value the target-temperature number entity shows
\* is a whole number of degrees in [16, 30]; an inbound value or a requested value
\* that rounds outside the range is not stored (and the request publishes nothing),
\* and the reset on becoming unavailable stores 22.
C40_NumberValueInRange ==
    /\ [](feature.e = "number" =>
            \E n \in 16..30 : ent["number"].d.native_value = Some(Deg(n)))
    /\ [][OutsideValueStep =>
             /\ ent'["number"].d = ent["number"].d
             /\ calls' = calls]_vars
    /\ [][(feature.e = "number" /\ ent["number"].available
             /\ ~ent'["number"].available)
            => ent'["number"].d.native_value = Some(Deg(22))]_vars

\* The available number entity showed 24 when the inbound value 35 arrived, and shows
\* 24 still.
C40_Witness ==
    /\ feature.e = "number"
    /\ lastEv.kind = "in" /\ lastEv.name = "temp_comfort_out" /\ lastEv.arg = "35"
    /\ lastEv.before.available
    /\ lastEv.before.d.native_value = Some(Deg(24))
    /\ ent["number"].available
    /\ ent["number"].d.native_value = Some(Deg(24))
====
